---- MODULE Spec2Model ----
(***************************************************************************)
(* A model of the DEFLATE decoder of mras0/deflate: the bit reader         *)
(* (bit_stream.h), the canonical code builder (huffman_table.cpp), the     *)
(* decode tree and prefix table (huffman_tree.h/.cpp) and the block engine *)
(* (deflate.cpp).                                                          *)
(*                                                                         *)
(* The build modelled is the one that compiles: deflate.cpp:37 names an    *)
(* undeclared identifier inside assert(), so the translation unit only     *)
(* builds with NDEBUG.  Assertions therefore do not stop the program; the  *)
(* model records every assertion whose condition is false in the ghost     *)
(* variable `bad` and goes on as the release build does.                   *)
(*                                                                         *)
(* Reads of memory the program does not own are undefined behaviour.  The  *)
(* outcomes are drawn at Init and then read like memory: `beyond` is what  *)
(* lies after the input buffer (reading past it again is a crash), and     *)
(* `wild` is what an out-of-range or uninitialised table/node read finds.  *)
(***************************************************************************)
EXTENDS Integers, Sequences, FiniteSets, TLC

(* ------------------------------------------------------------------ *)
(* Program constants                                                  *)
(* ------------------------------------------------------------------ *)
max_bits == 15
max_symbols == 288
max_nodes == max_symbols
invalid_edge_value == max_symbols + max_nodes
max_table_bits == 9
max_match_length == 258
lit_max == 255
end_of_block == 256
len_min == 257
len_max == 285
max_code_lengths == 19
initial_capacity == 32768

(* ------------------------------------------------------------------ *)
(* Fixed-width integer helpers                                        *)
(* ------------------------------------------------------------------ *)
\* 2^n for n up to 30
powers_of_two ==
    <<2, 4, 8, 16, 32, 64, 128, 256, 512, 1024, 2048, 4096, 8192, 16384, 32768, 65536, 131072,
      262144, 524288, 1048576, 2097152, 4194304, 8388608, 16777216, 33554432, 67108864,
      134217728, 268435456, 536870912, 1073741824>>
Pow2(n) == IF n <= 0 THEN 1 ELSE powers_of_two[n]

\* x << n in a w-bit unsigned integer: the bits of x that stay below bit w,
\* moved up by n (x itself is below 2^31 wherever this is used)
shl(x, n, w) == IF w - n >= 31 THEN x * Pow2(n) ELSE (x % Pow2(w - n)) * Pow2(n)
\* x >> n
shr(x, n) == x \div Pow2(n)
\* x & ((1 << n) - 1)
low_bits(x, n) == x % Pow2(n)
\* bit n of x
bit_of(x, n) == (x \div Pow2(n)) % 2

RECURSIVE bit_or(_, _)
bit_or(a, b) ==
    IF a = 0 THEN b
    ELSE IF b = 0 THEN a
    ELSE (IF (a % 2) + (b % 2) > 0 THEN 1 ELSE 0) + 2 * bit_or(a \div 2, b \div 2)

(* ------------------------------------------------------------------ *)
(* bit_stream (bit_stream.h).  A reader is the record                 *)
(*   mem   : the bytes at data_[0..], the buffer followed by whatever *)
(*           memory lies after it                                     *)
(*   len   : len_                                                     *)
(*   pos, bits, avail : pos_, bits_, avail_                           *)
(*   fault : a read left the mapped memory (the process is gone)      *)
(*   bad   : assertions of bit_stream whose condition was false       *)
(* ------------------------------------------------------------------ *)
bit_stream(data, after) ==
    [mem |-> data \o after, len |-> Len(data), pos |-> 0, bits |-> 0, avail |-> 0,
     fault |-> FALSE, bad |-> {}]

RECURSIVE ensure_loop(_, _)
ensure_loop(bs, num_bits) ==
    IF bs.fault \/ bs.avail >= num_bits THEN bs
    ELSE IF bs.pos >= Len(bs.mem) THEN [bs EXCEPT !.fault = TRUE, !.bad = @ \cup {"ensure_bits: pos_ < len_"}]
    ELSE ensure_loop(
            [bs EXCEPT !.pos = @ + 1,
                       !.bits = bit_or(shl(bs.mem[bs.pos + 1], bs.avail, 32), bs.bits),
                       !.avail = @ + 8,
                       !.bad = IF bs.pos < bs.len THEN @ ELSE @ \cup {"ensure_bits: pos_ < len_"}],
            num_bits)

ensure_bits(bs, num_bits) ==
    ensure_loop([bs EXCEPT !.bad = IF num_bits > 0 /\ num_bits <= 16 THEN @
                                   ELSE @ \cup {"ensure_bits: num_bits"}], num_bits)

\* the cap taken when one byte is left
potentially_available_one(bs) ==
    LET remaining == bs.len - bs.pos
    IN  IF remaining >= 1 THEN 16 ELSE bs.avail + 8 * remaining
potentially_available_bits(bs) ==
    LET remaining == bs.len - bs.pos
    IN  IF remaining >= 2 THEN 16 ELSE bs.avail + 8 * remaining

\* peek_bits without the mask
peek_bits_unmasked(bs, num_bits) == bs.bits
peek_bits(bs, num_bits) == low_bits(bs.bits, num_bits)

\* consume_bits without bits_ >>= num_bits
consume_bits_no_shift(bs, num_bits) ==
    IF bs.fault THEN bs
    ELSE [bs EXCEPT !.avail = @ - num_bits,
                    !.bad = IF num_bits > 0 /\ num_bits <= bs.avail THEN @
                            ELSE @ \cup {"consume_bits: num_bits"}]
consume_bits(bs, num_bits) ==
    IF bs.fault THEN bs
    ELSE [bs EXCEPT !.avail = @ - num_bits,
                    !.bits = shr(@, num_bits),
                    !.bad = IF num_bits > 0 /\ num_bits <= bs.avail THEN @
                            ELSE @ \cup {"consume_bits: num_bits"}]

available_bits(bs) == bs.avail

\* get_bits returns the value read and the reader after the read
get_bits(bs, num_bits) ==
    LET e == ensure_bits(bs, num_bits)
    IN  [res |-> peek_bits(e, num_bits), bs |-> consume_bits(e, num_bits)]

get_bit(bs) == get_bits(bs, 1)

(* ------------------------------------------------------------------ *)
(* huffman_code (huffman_code.h)                                      *)
(* ------------------------------------------------------------------ *)
huffman_code(len, value) == [len |-> len, value |-> value]

valid(c) == c.len > 0 /\ c.len <= max_bits /\ c.len <= 32 /\ shr(c.value, c.len) = 0

(* ------------------------------------------------------------------ *)
(* make_huffman_table (huffman_table.cpp).  A length vector is a      *)
(* sequence; symbol n is element n + 1.                               *)
(* ------------------------------------------------------------------ *)
\* Loops of more than a few iterations are written over index ranges,
\* iterations lo .. hi-1 split in two halves, so that the depth of the
\* evaluation stays logarithmic; each half hands its result to the next.
Mid(lo, hi) == (lo + hi) \div 2

\* std::max_element over elements lo+1 .. hi of s
RECURSIVE max_element(_, _, _)
max_element(s, lo, hi) ==
    IF hi - lo <= 1 THEN s[lo + 1]
    ELSE LET a == max_element(s, lo, Mid(lo, hi))
             b == max_element(s, Mid(lo, hi), hi)
         IN  IF b > a THEN b ELSE a

\* bl_count[N]: the number of codes of length N, N >= 1
bl_count(lens, max_bit_length) ==
    [N \in 0..max_bit_length |->
        IF N = 0 THEN 0 ELSE Cardinality({n \in 1..Len(lens) : lens[n] = N})]

\* the value of `code` after the iteration for `bits` (uint16_t arithmetic)
RECURSIVE smallest_code(_, _)
smallest_code(blc, bits) ==
    IF bits = 0 THEN 0
    ELSE shl(smallest_code(blc, bits - 1) + blc[bits - 1], 1, 16)

\* the assignment without next_code[len]++
assign_code_same(lens, st, n) ==
    [codes |-> Append(st.codes, huffman_code(lens[n + 1],
                                             IF lens[n + 1] # 0 THEN st.next_code[lens[n + 1]] ELSE 0)),
     next_code |-> st.next_code]
\* one iteration of the assignment loop, for symbol n; st is the codes
\* assigned so far and next_code
assign_code(lens, st, n) ==
    LET len == lens[n + 1]
    IN  IF len # 0
        THEN [codes |-> Append(st.codes, huffman_code(len, st.next_code[len])),
              next_code |-> [st.next_code EXCEPT ![len] = (@ + 1) % 65536]]
        ELSE [codes |-> Append(st.codes, huffman_code(0, 0)), next_code |-> st.next_code]

\* the assignment loop, iterations lo .. hi-1
RECURSIVE assign_codes(_, _, _, _)
assign_codes(lens, st, lo, hi) ==
    IF Len(st.codes) # lo \/ hi <= lo THEN st
    ELSE IF hi - lo = 1 THEN assign_code(lens, st, lo)
    ELSE assign_codes(lens, assign_codes(lens, st, lo, Mid(lo, hi)), Mid(lo, hi), hi)

make_huffman_table(lens) ==
    LET max_bit_length == max_element(lens, 0, Len(lens))
        blc == bl_count(lens, max_bit_length)
        next_code == [bits \in 0..max_bit_length |-> smallest_code(blc, bits)]
    IN  assign_codes(lens, [codes |-> <<>>, next_code |-> next_code], 0, Len(lens)).codes

\* the fixed lengths with the first range one symbol short
make_default_huffman_table_143 ==
    make_huffman_table([i \in 1..288 |->
        IF i - 1 < 143 THEN 8 ELSE IF i - 1 < 256 THEN 9 ELSE IF i - 1 < 280 THEN 7 ELSE 8])
make_default_huffman_table ==
    make_huffman_table([i \in 1..288 |->
        IF i - 1 < 144 THEN 8 ELSE IF i - 1 < 256 THEN 9 ELSE IF i - 1 < 280 THEN 7 ELSE 8])

make_default_huffman_len_table == make_huffman_table([i \in 1..32 |-> 5])

(* ------------------------------------------------------------------ *)
(* huffman_tree (huffman_tree.h).  A tree is the record               *)
(*   num_nodes, nodes : nodes[0 .. num_nodes) are initialised; the    *)
(*                      rest of the array of max_nodes cells is not   *)
(*   table_bits, table: table_bits_ and table[0 .. 2^table_bits_)     *)
(*   bad  : assertions of huffman_tree whose condition was false      *)
(*   ub   : a write went outside the node array                       *)
(* An edge is a symbol (< max_symbols), an interior node              *)
(* (max_symbols + id) or invalid_edge_value.                          *)
(* ------------------------------------------------------------------ *)
huffman_tree ==
    [num_nodes |-> 0, nodes |-> <<>>, table_bits |-> 0, table |-> <<>>,
     bad |-> {}, ub |-> FALSE]

\* whether nodes[index] is a cell the tree has initialised
node_ok(t, index) == index >= 0 /\ index < t.num_nodes

\* branch(index, right) as an rvalue; `w` is what a read outside the
\* initialised cells finds
branch(t, index, right, w) ==
    IF node_ok(t, index)
    THEN IF right THEN t.nodes[index + 1].right ELSE t.nodes[index + 1].left
    ELSE w

set_branch(t, index, right, v) ==
    IF right THEN [t EXCEPT !.nodes[index + 1].right = v]
    ELSE [t EXCEPT !.nodes[index + 1].left = v]

alloc_node(t) ==
    IF t.num_nodes < max_nodes
    THEN [t EXCEPT !.nodes = Append(@, [left |-> invalid_edge_value, right |-> invalid_edge_value]),
                   !.num_nodes = @ + 1]
    ELSE [t EXCEPT !.bad = @ \cup {"alloc_node: num_nodes < max_nodes"}, !.ub = TRUE]

\* consume_bit: the top bit of the code, and the code without it
consume_bit(c) == bit_of(c.value, c.len - 1) = 1
after_consume_bit(c) ==
    [len |-> c.len - 1, value |-> c.value - bit_of(c.value, c.len - 1) * Pow2(c.len - 1)]

\* the loop and the tail of add: walk the code from its top bit
RECURSIVE add_walk(_, _, _, _)
add_walk(t, symbol, c, index) ==
    IF t.ub THEN t
    ELSE IF ~node_ok(t, index)
    THEN [t EXCEPT !.bad = @ \cup {"branch: index < num_nodes"}, !.ub = TRUE]
    ELSE LET right == consume_bit(c)
             edge == branch(t, index, right, invalid_edge_value)
         IN  IF c.len > 1
             THEN LET t1 == IF edge = invalid_edge_value THEN alloc_node(t) ELSE t
                      t2 == IF edge = invalid_edge_value /\ ~t1.ub
                            THEN set_branch(t1, index, right, max_symbols + t.num_nodes)
                            ELSE t1
                      e2 == branch(t2, index, right, invalid_edge_value)
                      t3 == IF e2 >= max_symbols THEN t2
                            ELSE [t2 EXCEPT !.bad = @ \cup {"add: edge >= max_symbols"}]
                 IN  add_walk(t3, symbol, after_consume_bit(c), e2 - max_symbols)
             ELSE LET t1 == IF edge = invalid_edge_value THEN t
                            ELSE [t EXCEPT !.bad = @ \cup {"add: edge == invalid_edge_value"}]
                  IN  set_branch(t1, index, right, symbol)

add(t, symbol, symbol_code) ==
    LET t0 == [t EXCEPT !.bad = @
                   \cup (IF symbol >= 0 /\ symbol < max_symbols THEN {} ELSE {"add: symbol"})
                   \cup (IF valid(symbol_code) THEN {} ELSE {"add: symbol_code.valid()"})]
        t1 == IF t0.num_nodes = 0 THEN alloc_node(t0) ELSE t0
    IN  add_walk(t1, symbol, symbol_code, 0)

\* table_entry: its 16-bit representation, and the two fields read back
\* len() with the shift one bit too far
te_len_shift_13(repr) == shr(repr, 13) % 256
table_entry(len, index) == bit_or(shl(len, 12, 16), index) % 65536
te_len(repr) == shr(repr, 12) % 256
te_index(repr) == repr % 4096

\* the inner loop of make_tables for one table index: [len, index, ok]
RECURSIVE table_walk(_, _, _, _, _, _, _)
\* the loop without val >>= 1
table_walk_same_bit(t, K, len, index, val, ok, w) ==
    IF len < K /\ index >= max_symbols
    THEN table_walk(t, K, len + 1, branch(t, index - max_symbols, val % 2 = 1, w),
                    val, ok /\ node_ok(t, index - max_symbols), w)
    ELSE [len |-> len, index |-> index, ok |-> ok]
table_walk(t, K, len, index, val, ok, w) ==
    IF len < K /\ index >= max_symbols
    THEN table_walk(t, K, len + 1, branch(t, index - max_symbols, val % 2 = 1, w),
                    val \div 2, ok /\ node_ok(t, index - max_symbols), w)
    ELSE [len |-> len, index |-> index, ok |-> ok]

make_tables(t, num_table_bits, w) ==
    LET walks == [i \in 0..(Pow2(num_table_bits) - 1) |->
                    table_walk(t, num_table_bits, 0, max_symbols, i, TRUE, w)]
        idx == 0..(Pow2(num_table_bits) - 1)
    IN  [t EXCEPT
          !.table_bits = num_table_bits,
          !.table = [i \in idx |-> table_entry(walks[i].len, walks[i].index)],
          !.bad = @
            \cup (IF num_table_bits > 0 /\ num_table_bits <= max_table_bits THEN {}
                  ELSE {"make_tables: num_table_bits"})
            \cup (IF t.num_nodes > 0 THEN {} ELSE {"make_tables: num_nodes > 0"})
            \cup (IF \A i \in idx : walks[i].ok THEN {} ELSE {"branch: index < num_nodes"})
            \cup (IF \A i \in idx : walks[i].index < invalid_edge_value THEN {}
                  ELSE {"table_entry: index < invalid_edge_value"})]

next_from_bits(t, bits, num_bits) == t.table[low_bits(bits, t.table_bits)]

table_bits(t) == t.table_bits

\* make_huffman_tree (huffman_tree.cpp): the loop over the codes, then the table
RECURSIVE add_codes(_, _, _, _)
add_codes(t, codes, lo, hi) ==
    IF t.ub \/ hi <= lo THEN t
    ELSE IF hi - lo = 1 THEN (IF codes[lo + 1].len > 0 THEN add(t, lo, codes[lo + 1]) ELSE t)
    ELSE add_codes(add_codes(t, codes, lo, Mid(lo, hi)), codes, Mid(lo, hi), hi)

make_huffman_tree(codes, num_table_bits, w) ==
    LET t0 == [huffman_tree EXCEPT !.bad =
                   IF Len(codes) <= max_symbols THEN {} ELSE {"make_huffman_tree: codes.size()"}]
    IN  make_tables(add_codes(t0, codes, 0, Len(codes)), num_table_bits, w)

(* ------------------------------------------------------------------ *)
(* decode (deflate.cpp)                                               *)
(* ------------------------------------------------------------------ *)
\* the while loop of decode, on [value, bs, bad]: its test, one iteration,
\* up to 2^k iterations, and the loop
walk_done(st) == st.bs.fault \/ st.value < max_symbols

decode_step(t, st, w) ==
    LET g == get_bit(st.bs)
    IN  [value |-> branch(t, st.value - max_symbols, g.res = 1, w),
         bs |-> g.bs,
         bad |-> IF node_ok(t, st.value - max_symbols) THEN st.bad
                 ELSE st.bad \cup {"branch: index < num_nodes"}]

RECURSIVE decode_steps(_, _, _, _)
decode_steps(t, st, k, w) ==
    IF walk_done(st) THEN st
    ELSE IF k = 0 THEN decode_step(t, st, w)
    ELSE decode_steps(t, decode_steps(t, st, k - 1, w), k - 1, w)

RECURSIVE decode_walk(_, _, _)
decode_walk(t, st, w) ==
    IF walk_done(st) THEN st ELSE decode_walk(t, decode_steps(t, st, 5, w), w)

decode(t, bs, w) ==
    IF potentially_available_bits(bs) >= table_bits(t)
    THEN LET e == ensure_bits(bs, table_bits(t))
             te == next_from_bits(t, peek_bits(e, table_bits(t)), table_bits(t))
         IN  decode_walk(t, [value |-> te_index(te), bs |-> consume_bits(e, te_len(te)),
                             bad |-> {}], w)
    ELSE decode_walk(t, [value |-> max_symbols, bs |-> bs, bad |-> {}], w)

\* the process-scoped decoders of the fixed-Huffman block
default_lit_len_tree == make_huffman_tree(make_default_huffman_table, 9, 0)
default_dist_tree == make_huffman_tree(make_default_huffman_len_table, 5, 0)

(* ------------------------------------------------------------------ *)
(* output_buffer (deflate.cpp).  buffer_ is a vector of `capacity`    *)
(* bytes of which the first used_ have been written; resize()         *)
(* value-initialises, so the bytes from used_ up to the capacity are  *)
(* 0.  The record keeps                                               *)
(*   runs     : buffer_[0 .. used_) as runs <<byte, count>> of equal  *)
(*              bytes, in order                                       *)
(*   used     : used_                                                 *)
(*   capacity : buffer_.size()                                        *)
(* ------------------------------------------------------------------ *)
output_buffer == [runs |-> <<>>, used |-> 0, capacity |-> 0]

used(o) == o.used
capacity(o) == o.capacity
avail(o) == capacity(o) - used(o)

\* the byte at index idx of the bytes kept as runs, looked for from run k on
RECURSIVE run_at(_, _, _)
run_at(runs, idx, k) ==
    IF k > Len(runs) THEN 0
    ELSE IF idx < runs[k][2] THEN runs[k][1]
    ELSE run_at(runs, idx - runs[k][2], k + 1)

\* buffer_[0 .. used_) as a sequence of bytes
contents(o) == [k \in 1..o.used |-> run_at(o.runs, k - 1, 1)]

\* the runs with one more byte at the end
append_byte(runs, c) ==
    IF Len(runs) > 0 /\ runs[Len(runs)][1] = c
    THEN [runs EXCEPT ![Len(runs)] = <<c, @[2] + 1>>]
    ELSE Append(runs, <<c, 1>>)

\* the runs with bytes lo+1 .. hi of chunk at the end
RECURSIVE append_bytes(_, _, _, _)
append_bytes(runs, chunk, lo, hi) ==
    IF Len(runs) < 0 \/ hi <= lo THEN runs
    ELSE IF hi - lo = 1 THEN append_byte(runs, chunk[hi])
    ELSE append_bytes(append_bytes(runs, chunk, lo, Mid(lo, hi)), chunk, Mid(lo, hi), hi)

\* put without the store
put_nothing(o, c) == o
put(o, c) == [o EXCEPT !.runs = append_byte(@, c), !.used = @ + 1]

enlarge(o) ==
    [o EXCEPT !.capacity = IF @ < initial_capacity THEN initial_capacity ELSE @ * 2]

\* buffer_[idx] while `chunk` is what the running copy has written at used_ ..
\* (distance <= used at every call of copy_match, so idx >= 0 there; an index
\* below the buffer is given the value 0)
byte_at(o, chunk, idx) ==
    IF idx < 0 THEN 0
    ELSE IF idx < used(o) THEN run_at(o.runs, idx, 1)
    ELSE IF idx - used(o) < Len(chunk) THEN chunk[idx - used(o) + 1]
    ELSE 0

\* do { *out++ = *in++; } while (--length);  iterations lo .. hi-1, the
\* bytes written so far in `chunk`
RECURSIVE copy_loop(_, _, _, _, _)
copy_loop(o, chunk, in, lo, hi) ==
    IF Len(chunk) # lo \/ hi <= lo THEN chunk
    ELSE IF hi - lo = 1 THEN Append(chunk, byte_at(o, chunk, in + lo))
    ELSE copy_loop(o, copy_loop(o, chunk, in, lo, Mid(lo, hi)), in, Mid(lo, hi), hi)

\* memcpy(out, in, length): the source is read as it stood before the call
memcpy_bytes(o, in, length) == [k \in 1..length |-> byte_at(o, <<>>, in + k - 1)]

\* the assertions of copy_match that fail for (distance, length)
copy_match_bad(distance, length) ==
    (IF distance < 32768 THEN {} ELSE {"copy_match: distance < 32768"})
    \cup (IF length >= 3 /\ length <= max_match_length THEN {}
          ELSE {"copy_match: length"})

\* copy_match without the byte loop: memcpy whatever the distance
copy_match_memcpy(o, distance, length) ==
    LET in == used(o) - distance
        chunk == memcpy_bytes(o, in, length)
    IN  [o EXCEPT !.runs = append_bytes(@, chunk, 0, Len(chunk)), !.used = @ + length]
copy_match(o, distance, length) ==
    LET in == used(o) - distance
        chunk == IF distance >= length THEN memcpy_bytes(o, in, length)
                 ELSE copy_loop(o, <<>>, in, 0, length)
    IN  [o EXCEPT !.runs = append_bytes(@, chunk, 0, Len(chunk)), !.used = @ + length]

\* buffer_.resize(used()) and the move
steal_buffer(o) == contents(o)

(* ------------------------------------------------------------------ *)
(* deflate_inner (deflate.cpp): the tables and one loop iteration     *)
(* ------------------------------------------------------------------ *)
extra_bits ==
    <<0, 0, 0, 0, 0, 0, 0, 0, 1, 1, 1, 1, 2, 2, 2, 2, 3, 3, 3, 3, 4, 4, 4, 4, 5, 5, 5, 5, 0>>
lengths ==
    <<3, 4, 5, 6, 7, 8, 9, 10, 11, 13, 15, 17, 19, 23, 27, 31, 35, 43, 51, 59, 67, 83, 99,
      115, 131, 163, 195, 227, 258>>
\* arrays of 32 with 30 initialisers: the last two elements are 0
distance_extra_bits ==
    <<0, 0, 0, 0, 1, 1, 2, 2, 3, 3, 4, 4, 5, 5, 6, 6, 7, 7, 8, 8, 9, 9, 10, 10, 11, 11,
      12, 12, 13, 13, 0, 0>>
distance_length ==
    <<1, 2, 3, 4, 5, 7, 9, 13, 17, 25, 33, 49, 65, 97, 129, 193, 257, 385, 513, 769, 1025,
      1537, 2049, 3073, 4097, 6145, 8193, 12289, 16385, 24577, 0, 0>>

\* tab[i] of a C array; `w` is what a read outside the array finds
array_at(tab, i, w) == IF i >= 0 /\ i < Len(tab) THEN tab[i + 1] ELSE w

\* a check that lets a distance of used + 1 through
distance_off_by_one(dist_bytes, o) == ~(dist_bytes > used(o) + 1)
\* whether the decoded distance may be copied (the check before copy_match)
distance_accepted(dist_bytes, o) == ~(dist_bytes > used(o))

\* the match branch: value is the literal/length symbol just decoded from d
match_step(o, d, dist_tree, value, w) ==
    LET eb == array_at(extra_bits, value - len_min, w.eb)
        g == IF eb # 0 THEN get_bits(d.bs, eb) ELSE [res |-> 0, bs |-> d.bs]
        len == array_at(lengths, value - len_min, w.len) + g.res
        dd == decode(dist_tree, g.bs, w.node)
        dist == dd.value
        dist_extra_bits == array_at(distance_extra_bits, dist, w.eb)
        g2 == IF dist_extra_bits # 0 THEN get_bits(dd.bs, dist_extra_bits)
              ELSE [res |-> 0, bs |-> dd.bs]
        dist_bytes == array_at(distance_length, dist, w.len) + g2.res
        bad == d.bad \cup dd.bad
               \cup (IF len >= 3 /\ len <= max_match_length THEN {} ELSE {"deflate_inner: len"})
        oob == ~(value - len_min < Len(extra_bits)) \/ ~(dist < Len(distance_length))
    IN  IF g2.bs.fault
        THEN [kind |-> "fault", o |-> o, bs |-> g2.bs, bad |-> bad, value |-> value,
              dist |-> dist, distance |-> dist_bytes, length |-> len, oob |-> oob]
        ELSE IF ~distance_accepted(dist_bytes, o)
        THEN [kind |-> "false", o |-> o, bs |-> g2.bs, bad |-> bad, value |-> value,
              dist |-> dist, distance |-> dist_bytes, length |-> len, oob |-> oob]
        ELSE [kind |-> "copy_match", o |-> copy_match(o, dist_bytes, len), bs |-> g2.bs,
              bad |-> bad \cup copy_match_bad(dist_bytes, len), value |-> value,
              dist |-> dist, distance |-> dist_bytes, length |-> len, oob |-> oob]

\* one iteration of the for (;;) loop
deflate_inner(output, bs, lit_len_tree, dist_tree, w) ==
    LET o == IF avail(output) < max_match_length THEN enlarge(output) ELSE output
        d == decode(lit_len_tree, bs, w.node)
        value == d.value
        none == [value |-> value, dist |-> -1, distance |-> -1, length |-> -1, oob |-> FALSE]
    IN  IF d.bs.fault
        THEN [kind |-> "fault", o |-> o, bs |-> d.bs, bad |-> d.bad] @@ none
        ELSE IF value <= lit_max
        THEN [kind |-> "put", o |-> put(o, value % 256), bs |-> d.bs,
              bad |-> d.bad \cup (IF used(o) < capacity(o) THEN {} ELSE {"put: used() < capacity()"})]
             @@ none
        ELSE IF value = end_of_block
        THEN [kind |-> "true", o |-> o, bs |-> d.bs, bad |-> d.bad] @@ none
        ELSE match_step(o, d, dist_tree, value, w)

(* ------------------------------------------------------------------ *)
(* read_dynamic_huffman_code_lengths (deflate.cpp)                    *)
(* ------------------------------------------------------------------ *)
alphabet_permute == <<16, 17, 18, 0, 8, 7, 9, 6, 10, 5, 11, 4, 12, 3, 13, 2, 14, 1, 15>>

\* the loop that fills code_lengths: [code_lengths, bs] after iterations i..hclen-1
RECURSIVE read_code_length_lengths(_, _, _, _)
read_code_length_lengths(code_lengths, bs, i, hclen) ==
    IF bs.fault \/ i >= hclen THEN [code_lengths |-> code_lengths, bs |-> bs]
    ELSE LET g == get_bits(bs, 3)
         IN  read_code_length_lengths(
                 [code_lengths EXCEPT ![alphabet_permute[i + 1] + 1] = g.res % 256],
                 g.bs, i + 1, hclen)

\* the head of the function, up to the first iteration of the main loop
dynamic_header(bs, w) ==
    LET g1 == get_bits(bs, 5)
        g2 == get_bits(g1.bs, 5)
        g3 == get_bits(g2.bs, 4)
        hlit == 257 + g1.res
        hdist == 1 + g2.res
        hclen == 4 + g3.res
        r == read_code_length_lengths([k \in 1..max_code_lengths |-> 0], g3.bs, 0, hclen)
    IN  [hlit |-> hlit, hdist |-> hdist, hclen |-> hclen, code_lengths |-> r.code_lengths,
         cl_tree |-> make_huffman_tree(make_huffman_table(r.code_lengths), 7, w.node),
         cl2 |-> [k \in 1..(hlit + hdist) |-> 0], bs |-> r.bs]

\* the run written from the entry after i
fill_late(cl2, i, count, cl_val) ==
    [k \in 1..Len(cl2) |-> IF k - 1 > i /\ k - 1 <= i + count THEN cl_val ELSE cl2[k]]
\* cl2 with cl2[i .. i+count) set to cl_val
fill(cl2, i, count, cl_val) ==
    [k \in 1..Len(cl2) |-> IF k - 1 >= i /\ k - 1 < i + count THEN cl_val ELSE cl2[k]]

\* the test of line 205 without the comparison with the size of cl2
run_refused_length_only(cl_val, count, i, size) == cl_val > max_bits
\* whether a run of `count` entries from index i is refused (line 205)
run_refused(cl_val, count, i, size) == cl_val > max_bits \/ count + i > size

\* one iteration of the main loop: kind "next" (go on) or "false" (return false)
code_length_step(cl_tree, bs, cl2, i, w) ==
    LET d == decode(cl_tree, bs, w.node)
        sym == d.value % 256
        x == IF sym = 16 THEN get_bits(d.bs, 2)
             ELSE IF sym = 17 THEN get_bits(d.bs, 3)
             ELSE IF sym = 18 THEN get_bits(d.bs, 7)
             ELSE [res |-> 0, bs |-> d.bs]
        cl_val == IF sym <= 15 THEN sym ELSE IF sym = 16 THEN cl2[i] ELSE 0
        count == IF sym <= 15 THEN 1
                 ELSE IF sym = 16 THEN 3 + x.res
                 ELSE IF sym = 17 THEN 3 + x.res
                 ELSE 11 + x.res
        stop == [cl2 |-> cl2, i |-> i, bad |-> d.bad, sym |-> sym, count |-> count]
    IN  IF d.bs.fault THEN [kind |-> "fault", bs |-> d.bs] @@ stop
        ELSE IF sym = 16 /\ i = 0 THEN [kind |-> "false", bs |-> d.bs] @@ stop
        ELSE IF sym > 18 THEN [kind |-> "false", bs |-> d.bs] @@ stop
        ELSE IF x.bs.fault THEN [kind |-> "fault", bs |-> x.bs] @@ stop
        ELSE IF run_refused(cl_val, count, i, Len(cl2)) THEN [kind |-> "false", bs |-> x.bs] @@ stop
        ELSE [kind |-> "next", bs |-> x.bs, cl2 |-> fill(cl2, i, count, cl_val),
              i |-> i + count, bad |-> d.bad, sym |-> sym, count |-> count]

\* the slice [from, to) of a length vector
slice(v, from, to) == [k \in 1..(to - from) |-> v[from + k]]

(* ------------------------------------------------------------------ *)
(* The input side: streams are described as blocks of tokens and      *)
(* written out by a reference encoder that follows RFC 1951, not the  *)
(* decoder's tables.  A token is [k, a, b]:                           *)
(*   "lit"   a = literal byte                                         *)
(*   "eob"                                                            *)
(*   "match" a = length 3..258, b = distance 1..32768                 *)
(*   "sym"   a = a raw literal/length symbol, written with its code   *)
(*   "dsym"  a = length, b = a raw distance symbol, no extra bits     *)
(* A block is [final, type, hdr, toks]; hdr names a dynamic header.   *)
(* ------------------------------------------------------------------ *)
Lit(v) == [k |-> "lit", a |-> v, b |-> 0]
Eob == [k |-> "eob", a |-> end_of_block, b |-> 0]
Match(len, dist) == [k |-> "match", a |-> len, b |-> dist]
Sym(v) == [k |-> "sym", a |-> v, b |-> 0]
DSym(len, d) == [k |-> "dsym", a |-> len, b |-> d]
Block(final, type, hdr, toks) == [final |-> final, type |-> type, hdr |-> hdr, toks |-> toks]

\* RFC 1951 3.2.5: length codes 257..285 and distance codes 0..29, by formula
RefLenExtra(c) == IF c < 8 \/ c = 28 THEN 0 ELSE (c \div 4) - 1
RefLenBase(c) == IF c < 8 THEN 3 + c ELSE IF c = 28 THEN 258
                 ELSE 3 + (4 + (c % 4)) * Pow2((c \div 4) - 1)
RefDistExtra(d) == IF d < 4 THEN 0 ELSE (d \div 2) - 1
RefDistBase(d) == IF d < 4 THEN 1 + d ELSE 1 + (2 + (d % 2)) * Pow2((d \div 2) - 1)
RefLenCode(len) ==
    IF len = 258 THEN 28
    ELSE CHOOSE c \in 0..27 : RefLenBase(c) <= len /\ len < RefLenBase(c) + Pow2(RefLenExtra(c))
RefDistCode(dist) ==
    CHOOSE d \in 0..29 : RefDistBase(d) <= dist /\ dist < RefDistBase(d) + Pow2(RefDistExtra(d))

\* n bits of v, least significant first (integer fields)
RECURSIVE LsbBits(_, _)
LsbBits(v, n) == IF n = 0 THEN <<>> ELSE <<v % 2>> \o LsbBits(v \div 2, n - 1)
\* a Huffman code, most significant bit first
RECURSIVE MsbBits(_, _)
MsbBits(v, n) == IF n = 0 THEN <<>> ELSE <<(v \div Pow2(n - 1)) % 2>> \o MsbBits(v, n - 1)

\* RFC 1951 3.2.6: the fixed codes
RefFixedLit(sy) ==
    IF sy < 144 THEN MsbBits(48 + sy, 8)
    ELSE IF sy < 256 THEN MsbBits(400 + (sy - 144), 9)
    ELSE IF sy < 280 THEN MsbBits(sy - 256, 7)
    ELSE MsbBits(192 + (sy - 280), 8)
RefFixedDist(d) == MsbBits(d, 5)

\* RFC 1951 3.2.2: the canonical code of symbol sy under the lengths L, as
\* the number of code words of length L[sy] that precede it
RefCanon(L, sy) ==
    LET len == L[sy + 1]
        before == {t \in 0..(Len(L) - 1) :
                     L[t + 1] > 0 /\ (L[t + 1] < len \/ (L[t + 1] = len /\ t < sy))}
        RECURSIVE Sum(_, _)
        Sum(lo, hi) == IF hi <= lo THEN 0
                       ELSE IF hi - lo = 1
                       THEN (IF lo \in before THEN Pow2(len - L[lo + 1]) ELSE 0)
                       ELSE Sum(lo, Mid(lo, hi)) + Sum(Mid(lo, hi), hi)
    IN  MsbBits(Sum(0, Len(L)), len)

\* a length vector given as the entries that are not 0
Sparse(n, pairs) ==
    [k \in 1..n |-> IF \E q \in pairs : q[1] = k - 1
                    THEN (CHOOSE q \in pairs : q[1] = k - 1)[2] ELSE 0]

\* one code of length 1 and n of length 15
LongCodes(n) == [i \in 1..(n + 1) |-> IF i = 1 THEN 1 ELSE 15]

\* the dynamic headers used: code-length code lengths (by symbol), the header
\* fields, and the code-length symbols with their extra bits
DynHeaders ==
    <<  \* 1: literals 65, 200, eob, lengths 3..5; distances 1..3
        [hlit |-> 260, hdist |-> 3, hclen |-> 18,
         clcl |-> Sparse(19, {<<1, 2>>, <<2, 2>>, <<3, 2>>, <<18, 2>>}),
         ops |-> << <<18, 54>>, <<2, 0>>, <<18, 123>>, <<3, 0>>, <<18, 44>>,
                    <<3, 0>>, <<2, 0>>, <<3, 0>>, <<3, 0>>,
                    <<1, 0>>, <<2, 0>>, <<2, 0>> >>,
         lit |-> Sparse(260, {<<65, 2>>, <<200, 3>>, <<256, 3>>, <<257, 2>>, <<258, 3>>, <<259, 3>>}),
         dist |-> Sparse(3, {<<0, 1>>, <<1, 2>>, <<2, 2>>})],
        \* 2: the first code-length symbol is 16
        [hlit |-> 257, hdist |-> 1, hclen |-> 4,
         clcl |-> Sparse(19, {<<16, 1>>, <<18, 1>>}),
         ops |-> << <<16, 0>> >>,
         lit |-> Sparse(257, {}), dist |-> Sparse(1, {})],
        \* 3: a run of 138 zeros, then a run of 138 from index 138 of 258
        [hlit |-> 257, hdist |-> 1, hclen |-> 4,
         clcl |-> Sparse(19, {<<0, 1>>, <<18, 1>>}),
         ops |-> << <<18, 127>>, <<18, 127>> >>,
         lit |-> Sparse(257, {}), dist |-> Sparse(1, {})],
        \* 4: zeros up to index 249 of 258, then a run of 10 zeros
        [hlit |-> 257, hdist |-> 1, hclen |-> 4,
         clcl |-> Sparse(19, {<<17, 1>>, <<18, 1>>}),
         ops |-> << <<18, 127>>, <<18, 100>>, <<17, 7>> >>,
         lit |-> Sparse(257, {}), dist |-> Sparse(1, {})],
        \* 5: a length 1, six copies of it, zeros up to index 252, three
        \* copies of the 0 before, then four more from index 255 of 258
        [hlit |-> 257, hdist |-> 1, hclen |-> 18,
         clcl |-> Sparse(19, {<<1, 2>>, <<16, 2>>, <<18, 1>>}),
         ops |-> << <<1, 0>>, <<16, 3>>, <<18, 127>>, <<18, 96>>, <<16, 0>>, <<16, 1>> >>,
         lit |-> Sparse(257, {}), dist |-> Sparse(1, {})],
        \* 6: literal 65 and eob; distance 0; the last run of 3 zeros ends at
        \* the last of the 261 entries
        [hlit |-> 257, hdist |-> 4, hclen |-> 18,
         clcl |-> Sparse(19, {<<1, 1>>, <<17, 2>>, <<18, 2>>}),
         ops |-> << <<18, 54>>, <<1, 0>>, <<18, 127>>, <<18, 41>>, <<1, 0>>, <<1, 0>>,
                    <<17, 0>> >>,
         lit |-> Sparse(257, {<<65, 1>>, <<256, 1>>}),
         dist |-> Sparse(4, {<<0, 1>>})],
        \* 7: literals 65, 255, eob and length 3 (symbol 257) of length 2;
        \* distances 0 and 1 of length 2; the last run copies the length of
        \* entry 255 to the entries 256, 257 (literal/length) and 258, 259
        \* (distance)
        [hlit |-> 258, hdist |-> 2, hclen |-> 16,
         clcl |-> Sparse(19, {<<2, 1>>, <<16, 2>>, <<18, 2>>}),
         ops |-> << <<18, 54>>, <<2, 0>>, <<18, 127>>, <<18, 40>>, <<2, 0>>, <<16, 1>> >>,
         lit |-> Sparse(258, {<<65, 2>>, <<255, 2>>, <<256, 2>>, <<257, 2>>}),
         dist |-> Sparse(2, {<<0, 2>>, <<1, 2>>})],
        \* 8: 286 literal/length codes, one of length 1 and 285 of length 15
        \* (47 runs of six copies and one of three), and one distance code
        \* of length 15
        [hlit |-> 286, hdist |-> 1, hclen |-> 19,
         clcl |-> Sparse(19, {<<1, 2>>, <<15, 2>>, <<16, 1>>}),
         ops |-> << <<1, 0>>, <<15, 0>> >> \o [k \in 1..47 |-> <<16, 3>>] \o << <<16, 0>> >>,
         lit |-> LongCodes(285),
         dist |-> <<15>>],
        \* 9: literal 65 and eob; no distance code
        [hlit |-> 257, hdist |-> 1, hclen |-> 18,
         clcl |-> Sparse(19, {<<0, 2>>, <<1, 2>>, <<18, 1>>}),
         ops |-> << <<18, 54>>, <<1, 0>>, <<18, 127>>, <<18, 41>>, <<1, 0>>, <<0, 0>> >>,
         lit |-> Sparse(257, {<<65, 1>>, <<256, 1>>}),
         dist |-> <<0>>]
    >>

OpExtraBits(sy) == IF sy = 16 THEN 2 ELSE IF sy = 17 THEN 3 ELSE IF sy = 18 THEN 7 ELSE 0

RECURSIVE EncOps(_, _, _)
EncOps(clcl, ops, n) ==
    IF n > Len(ops) THEN <<>>
    ELSE RefCanon(clcl, ops[n][1]) \o LsbBits(ops[n][2], OpExtraBits(ops[n][1]))
         \o EncOps(clcl, ops, n + 1)

RECURSIVE EncClcl(_, _, _)
EncClcl(clcl, n, hclen) ==
    IF n >= hclen THEN <<>>
    ELSE LsbBits(clcl[alphabet_permute[n + 1] + 1], 3) \o EncClcl(clcl, n + 1, hclen)

EncHeader(h) ==
    LsbBits(h.hlit - 257, 5) \o LsbBits(h.hdist - 1, 5) \o LsbBits(h.hclen - 4, 4)
    \o EncClcl(h.clcl, 0, h.hclen) \o EncOps(h.clcl, h.ops, 1)

EncLit(b, sy) == IF b.type = 2 THEN RefCanon(DynHeaders[b.hdr].lit, sy) ELSE RefFixedLit(sy)
EncDist(b, d) == IF b.type = 2 THEN RefCanon(DynHeaders[b.hdr].dist, d) ELSE RefFixedDist(d)

EncTok(b, t) ==
    IF b.type = 0 THEN LsbBits(t.a, 8)
    ELSE IF t.k = "match"
    THEN LET c == RefLenCode(t.a)
             d == RefDistCode(t.b)
         IN  EncLit(b, 257 + c) \o LsbBits(t.a - RefLenBase(c), RefLenExtra(c))
             \o EncDist(b, d) \o LsbBits(t.b - RefDistBase(d), RefDistExtra(d))
    ELSE IF t.k = "dsym"
    THEN LET c == RefLenCode(t.a)
         IN  EncLit(b, 257 + c) \o LsbBits(t.a - RefLenBase(c), RefLenExtra(c))
             \o EncDist(b, t.b)
    ELSE EncLit(b, t.a)

RECURSIVE EncToks(_, _, _)
EncToks(b, lo, hi) ==
    IF hi <= lo THEN <<>>
    ELSE IF hi - lo = 1 THEN EncTok(b, b.toks[lo + 1])
    ELSE EncToks(b, lo, Mid(lo, hi)) \o EncToks(b, Mid(lo, hi), hi)

\* RFC 1951 3.2.4: a stored block (type 0) is its header, the bits up to the
\* next byte boundary, LEN, its complement NLEN, and LEN bytes; its tokens
\* are the bytes.  A block of type 3 is its header alone.
\* `sofar` is the number of bits written before the block.
EncBlock(sofar, b) ==
    <<b.final>> \o LsbBits(b.type, 2)
    \o (IF b.type = 2 THEN EncHeader(DynHeaders[b.hdr])
        ELSE IF b.type = 0
        THEN LsbBits(0, (8 - ((sofar + 3) % 8)) % 8)
             \o LsbBits(Len(b.toks), 16) \o LsbBits(65535 - Len(b.toks), 16)
        ELSE <<>>)
    \o EncToks(b, 0, Len(b.toks))

RECURSIVE EncBlocks(_, _, _)
EncBlocks(bits, blocks, n) ==
    IF n > Len(blocks) THEN bits
    ELSE EncBlocks(bits \o EncBlock(Len(bits), blocks[n]), blocks, n + 1)

\* bits to bytes, bit 0 of each byte first, the last byte padded with 0
PackBytes(bits) ==
    LET RECURSIVE ByteAt(_, _)
        ByteAt(j, n) == IF n = 8 THEN 0
                        ELSE (IF 8 * j + n + 1 <= Len(bits) THEN bits[8 * j + n + 1] ELSE 0)
                             + 2 * ByteAt(j, n + 1)
    IN  [j \in 1..((Len(bits) + 7) \div 8) |-> ByteAt(j - 1, 0)]

Encode(blocks) == PackBytes(EncBlocks(<<>>, blocks, 1))

(* ------------------------------------------------------------------ *)
(* The reference decoder, on tokens (RFC 1951 3.2.3)                  *)
(* ------------------------------------------------------------------ *)
RefMatch(out, len, dist) ==
    out \o [k \in 1..len |-> out[Len(out) - dist + 1 + ((k - 1) % dist)]]

\* the output after tokens lo+1 .. hi, given the output before them
RECURSIVE RefToks(_, _, _, _)
RefToks(out, toks, lo, hi) ==
    IF Len(out) < 0 \/ hi <= lo THEN out
    ELSE IF hi - lo = 1
    THEN (IF toks[hi].k = "lit" THEN Append(out, toks[hi].a)
          ELSE IF toks[hi].k = "match" THEN RefMatch(out, toks[hi].a, toks[hi].b)
          ELSE out)
    ELSE RefToks(RefToks(out, toks, lo, Mid(lo, hi)), toks, Mid(lo, hi), hi)

RECURSIVE RefBlocks(_, _, _)
RefBlocks(out, blocks, n) ==
    IF n > Len(blocks) THEN out
    ELSE LET o2 == RefToks(out, blocks[n].toks, 0, Len(blocks[n].toks))
         IN  IF blocks[n].final = 1 THEN o2 ELSE RefBlocks(o2, blocks, n + 1)

RefOutput(blocks) == RefBlocks(<<>>, blocks, 1)

\* well-formed: Huffman blocks only, the last one (and only it) final, every
\* block literals and matches closed by one end-of-block, every match within
\* the bytes emitted before it
\* the number of bytes tokens 1 .. n emit
RECURSIVE Emitted(_, _, _)
Emitted(toks, lo, hi) ==
    IF hi <= lo THEN 0
    ELSE IF hi - lo = 1
    THEN (IF toks[hi].k = "lit" THEN 1 ELSE IF toks[hi].k = "eob" THEN 0 ELSE toks[hi].a)
    ELSE Emitted(toks, lo, Mid(lo, hi)) + Emitted(toks, Mid(lo, hi), hi)

ToksWellFormed(n0, toks) ==
    /\ toks[Len(toks)].k = "eob"
    /\ \A n \in 1..(Len(toks) - 1) :
          /\ toks[n].k \in {"lit", "match"}
          /\ toks[n].k = "match" => toks[n].b >= 1 /\ toks[n].b <= n0 + Emitted(toks, 0, n - 1)

RECURSIVE BlocksWellFormed(_, _, _)
BlocksWellFormed(out, blocks, n) ==
    /\ blocks[n].type \in {1, 2}
    /\ blocks[n].final = (IF n = Len(blocks) THEN 1 ELSE 0)
    /\ Len(blocks[n].toks) > 0
    /\ ToksWellFormed(Len(out), blocks[n].toks)
    /\ n < Len(blocks) =>
         BlocksWellFormed(RefToks(out, blocks[n].toks, 0, Len(blocks[n].toks)), blocks, n + 1)

WellFormed(blocks) == Len(blocks) > 0 /\ BlocksWellFormed(<<>>, blocks, 1)

(* ------------------------------------------------------------------ *)
(* deflate (deflate.cpp): the state of one call                       *)
(* ------------------------------------------------------------------ *)
VARIABLES
    bs,            \* the bit reader (the caller's bit_stream)
    wild,          \* what reads outside an array or of uninitialised cells find
    output,        \* output_buffer output
    last_block,    \* bool last_block
    type,          \* block_type of the block being processed
    cl_tree,       \* read_dynamic_huffman_code_lengths: cl_tree
    cl2,           \*   the vector cl2
    hlit,          \*   number_of_lit_len_codes
    cl_i,          \*   the loop index i
    lit_len_tree,  \* the decoders of the block being processed
    dist_tree,
    pc,            \* where the call is: "block_header", "dynamic_header",
                   \* "code_lengths", "symbol"; or how it ended: "returned",
                   \* "invalid" (runtime_error thrown), "crash" (a read left
                   \* the mapped memory), "ub" (a write outside an array)
    result,        \* the vector handed to the caller
    bad,           \* ghost: the assertions whose condition was false so far
    last,          \* ghost: what the last step did
    nblocks,       \* ghost: the number of block headers read
    stream         \* ghost: the description the input was written from

vars == <<bs, wild, output, last_block, type, cl_tree, cl2, hlit, cl_i,
          lit_len_tree, dist_tree, pc, result, bad, last, nblocks, stream>>

\* the number of input bits consumed so far
BitPos(b) == 8 * b.pos - b.avail

NoLast == [op |-> "none", value |-> -1, dist |-> -1, distance |-> -1, length |-> -1,
           oob |-> FALSE, used_before |-> 0, bit_before |-> 0]

\* while (true)
loop_forever(lb) == TRUE
\* while (!last_block)
loop_continues(lb) == ~lb

\* a dispatch that takes the reserved type for a stored block
block_dispatch_no_else(ty) ==
    IF ty = 2 THEN "dynamic_header"
    ELSE IF ty = 1 THEN "symbol"
    ELSE "block_header"
\* the dispatch on the block type: where the call goes next
block_dispatch(ty) ==
    IF ty = 0 THEN "block_header"
    ELSE IF ty = 2 THEN "dynamic_header"
    ELSE IF ty = 1 THEN "symbol"
    ELSE "invalid"

\* the assertions of the loop body that fail for a block type
block_bad(ty) ==
    (IF ty # 3 THEN {} ELSE {"deflate: type != block_type::reserved"})
    \cup (IF ty # 0 THEN {} ELSE {"deflate: assert(false) in uncompressed"})
    \cup (IF block_dispatch(ty) # "invalid" THEN {} ELSE {"invalid: assert(false)"})

BlockHeader ==
    /\ pc = "block_header"
    /\ loop_continues(last_block)
    /\ \E g1 \in {get_bit(bs)} : \E g2 \in {get_bits(g1.bs, 2)} :
           /\ bs' = g2.bs
           /\ last' = [NoLast EXCEPT !.op = "header", !.value = g2.res,
                                     !.used_before = used(output), !.bit_before = BitPos(bs)]
           /\ nblocks' = nblocks + 1
           /\ IF g2.bs.fault
              THEN /\ pc' = "crash"
                   /\ bad' = bad \cup g2.bs.bad
                   /\ UNCHANGED <<last_block, type, lit_len_tree, dist_tree>>
              ELSE /\ last_block' = (g1.res # 0)
                   /\ type' = g2.res
                   /\ pc' = block_dispatch(g2.res)
                   /\ bad' = bad \cup g2.bs.bad \cup block_bad(g2.res)
                   /\ lit_len_tree' = IF g2.res = 1 THEN default_lit_len_tree ELSE lit_len_tree
                   /\ dist_tree' = IF g2.res = 1 THEN default_dist_tree ELSE dist_tree
    /\ UNCHANGED <<wild, output, cl_tree, cl2, hlit, cl_i, result, stream>>

DynamicHeader ==
    /\ pc = "dynamic_header"
    /\ \E h \in {dynamic_header(bs, wild)} :
           /\ bs' = h.bs
           /\ last' = [NoLast EXCEPT !.op = "dynamic_header", !.used_before = used(output),
                                     !.bit_before = BitPos(bs)]
           /\ IF h.bs.fault
              THEN /\ pc' = "crash"
                   /\ bad' = bad \cup h.bs.bad
                   /\ UNCHANGED <<cl_tree, cl2, hlit, cl_i>>
              ELSE /\ pc' = IF h.cl_tree.ub THEN "ub" ELSE "code_lengths"
                   /\ bad' = bad \cup h.bs.bad \cup h.cl_tree.bad
                   /\ cl_tree' = h.cl_tree
                   /\ cl2' = h.cl2
                   /\ hlit' = h.hlit
                   /\ cl_i' = 0
    /\ UNCHANGED <<wild, output, last_block, type, lit_len_tree, dist_tree, result,
                   nblocks, stream>>

CodeLength ==
    /\ pc = "code_lengths"
    /\ cl_i < Len(cl2)
    /\ \E r \in {code_length_step(cl_tree, bs, cl2, cl_i, wild)} :
           /\ bs' = r.bs
           /\ last' = [NoLast EXCEPT !.op = "code_length", !.value = r.sym, !.length = r.count,
                                     !.used_before = cl_i, !.bit_before = BitPos(bs)]
           /\ bad' = bad \cup r.bs.bad \cup r.bad
           /\ pc' = IF r.kind = "fault" THEN "crash"
                    ELSE IF r.kind = "false" THEN "invalid" ELSE "code_lengths"
           /\ cl2' = r.cl2
           /\ cl_i' = r.i
    /\ UNCHANGED <<wild, output, last_block, type, cl_tree, hlit, lit_len_tree, dist_tree,
                   result, nblocks, stream>>

BuildTrees ==
    /\ pc = "code_lengths"
    /\ ~(cl_i < Len(cl2))
    /\ \E lt \in {make_huffman_tree(make_huffman_table(slice(cl2, 0, hlit)), 9, wild.node)} :
       \E dt \in {make_huffman_tree(make_huffman_table(slice(cl2, hlit, Len(cl2))), 6, wild.node)} :
           /\ lit_len_tree' = lt
           /\ dist_tree' = dt
           /\ bad' = bad \cup lt.bad \cup dt.bad
           /\ pc' = IF lt.ub \/ dt.ub THEN "ub" ELSE "symbol"
    /\ last' = [NoLast EXCEPT !.op = "build_trees", !.used_before = used(output),
                              !.bit_before = BitPos(bs)]
    /\ UNCHANGED <<bs, wild, output, last_block, type, cl_tree, cl2, hlit, cl_i, result,
                   nblocks, stream>>

Symbol ==
    /\ pc = "symbol"
    /\ \E r \in {deflate_inner(output, bs, lit_len_tree, dist_tree, wild)} :
           /\ bs' = r.bs
           /\ output' = r.o
           /\ bad' = bad \cup r.bs.bad \cup r.bad
                     \cup (IF r.kind = "false" THEN {"invalid: assert(false)"} ELSE {})
           /\ last' = [op |-> r.kind, value |-> r.value, dist |-> r.dist,
                       distance |-> r.distance, length |-> r.length, oob |-> r.oob,
                       used_before |-> used(output), bit_before |-> BitPos(bs)]
           /\ pc' = IF r.kind = "fault" THEN "crash"
                    ELSE IF r.kind = "false" THEN "invalid"
                    ELSE IF r.kind = "true" THEN "block_header"
                    ELSE IF used(r.o) > capacity(r.o) THEN "ub"
                    ELSE "symbol"
    /\ UNCHANGED <<wild, last_block, type, cl_tree, cl2, hlit, cl_i, lit_len_tree,
                   dist_tree, result, nblocks, stream>>

Return ==
    /\ pc = "block_header"
    /\ ~loop_continues(last_block)
    /\ pc' = "returned"
    /\ result' = steal_buffer(output)
    /\ last' = [NoLast EXCEPT !.op = "return", !.used_before = used(output),
                              !.bit_before = BitPos(bs)]
    /\ UNCHANGED <<bs, wild, output, last_block, type, cl_tree, cl2, hlit, cl_i,
                   lit_len_tree, dist_tree, bad, nblocks, stream>>

Next == BlockHeader \/ DynamicHeader \/ CodeLength \/ BuildTrees \/ Symbol \/ Return

(* ------------------------------------------------------------------ *)
(* The inputs.  A scenario is a stream description, the number of its *)
(* bytes the caller hands over (keep, or -1 for all of them), the     *)
(* memory after the buffer, and what wild reads find.                 *)
(* ------------------------------------------------------------------ *)
MaxTokens == 3      \* tokens before the end-of-block of a fixed one-block stream
MaxDynTokens == 2   \* tokens before the end-of-block of a dynamic one-block stream
MaxPairTokens == 1  \* tokens before the end-of-block in a two-block stream
FarMatches == 127   \* matches of length 258 that fill the window

TokChoices == {Lit(65), Lit(200), Match(3, 1), Match(5, 1), Match(4, 2), Match(3, 3)}
DynTokChoices == {Lit(65), Lit(200), Match(3, 1), Match(4, 2)}
PairTokChoices == {Lit(65), Match(3, 1)}

SeqsUpTo(S, n) == UNION {[1..m -> S] : m \in 0..n}
Closed(ts) == ts \o <<Eob>>

BeyondChoices == {<<>>, <<0, 0, 0, 0>>, <<255, 255>>}
WildDefault == [node |-> invalid_edge_value, eb |-> 0, len |-> 0]
WildChoices == {WildDefault, [node |-> 0, eb |-> 1, len |-> 3],
                [node |-> max_symbols, eb |-> 0, len |-> 258]}
\* a read outside `lengths` that finds a value above the room for a match
WildLong == [node |-> invalid_edge_value, eb |-> 0, len |-> initial_capacity]

\* one Huffman block, the final one
OneBlock ==
    {<<Block(1, 1, 0, Closed(ts))>> : ts \in SeqsUpTo(TokChoices, MaxTokens)}
    \cup {<<Block(1, 2, 1, Closed(ts))>> : ts \in SeqsUpTo(DynTokChoices, MaxDynTokens)}

\* stored blocks: alone, and before a fixed block
StoredStreams ==
    {<<Block(1, 0, 0, <<Lit(65)>>)>>, <<Block(1, 0, 0, <<Lit(65), Lit(200), Lit(0)>>)>>,
     <<Block(0, 0, 0, <<Lit(65)>>), Block(1, 1, 0, <<Lit(200), Eob>>)>>}

\* two blocks of any type, each with either value of BFINAL
PairBlockChoices ==
    {Block(f, 1, 0, Closed(ts)) : f \in {0, 1}, ts \in SeqsUpTo(PairTokChoices, MaxPairTokens)}
    \cup {Block(f, 0, 0, <<Lit(65)>>) : f \in {0, 1}}
    \cup {Block(f, 3, 0, <<>>) : f \in {0, 1}}
TwoBlocks == {<<b1, b2>> : b1 \in PairBlockChoices, b2 \in PairBlockChoices}

\* blocks with a dynamic code next to other blocks, and three blocks
MixedBlocks ==
    {<<Block(0, 2, 1, <<Lit(65), Eob>>), Block(1, 1, 0, <<Match(3, 1), Lit(200), Eob>>)>>,
     <<Block(0, 1, 0, <<Lit(65), Eob>>), Block(1, 2, 1, <<Match(3, 1), Lit(200), Eob>>)>>,
     <<Block(0, 2, 1, <<Lit(200), Lit(65), Eob>>), Block(1, 2, 1, <<Match(4, 2), Eob>>)>>,
     <<Block(0, 2, 1, <<Lit(65), Eob>>), Block(0, 2, 1, <<Match(3, 1), Eob>>)>>,
     <<Block(0, 2, 1, <<Eob>>), Block(1, 3, 0, <<>>)>>,
     <<Block(0, 1, 0, <<Lit(65), Eob>>), Block(0, 1, 0, <<Match(3, 1), Eob>>),
       Block(1, 1, 0, <<Match(4, 2), Lit(200), Eob>>)>>,
     <<Block(0, 1, 0, <<Lit(65), Eob>>), Block(1, 1, 0, <<Lit(200), Eob>>),
       Block(1, 1, 0, <<Lit(65), Eob>>)>>,
     <<Block(0, 1, 0, <<Lit(65), Eob>>), Block(1, 1, 0, <<Match(3, 3), Eob>>)>>}

\* the two streams of test_deflate ("Line 1\nLine 2\n")
TestStream1 ==
    <<Block(1, 1, 0, <<Lit(76), Lit(105), Lit(110), Lit(101), Lit(32), Lit(49), Lit(10),
                       Lit(76), Match(4, 7), Lit(50), Lit(10), Eob>>)>>
TestStream2 ==
    <<Block(1, 1, 0, <<Lit(76), Lit(105), Lit(110), Lit(101), Lit(32), Lit(49), Lit(10),
                       Match(5, 7), Lit(50), Lit(10), Eob>>)>>
deflate_input1 == <<243, 201, 204, 75, 85, 48, 228, 242, 1, 81, 70, 92, 0>>
deflate_input2 == <<243, 201, 204, 75, 85, 48, 228, 2, 83, 70, 92, 0>>
expected_output == <<76, 105, 110, 101, 32, 49, 10, 76, 105, 110, 101, 32, 50, 10>>

\* every length code (its base, and its base plus all extra bits) at distance 1
LengthStreams ==
    {<<Block(1, 1, 0, <<Lit(65), Match(RefLenBase(c), 1), Eob>>)>> : c \in 0..28}
    \cup {<<Block(1, 1, 0, <<Lit(65), Match(RefLenBase(c) + Pow2(RefLenExtra(c)) - 1, 1), Eob>>)>> :
            c \in 0..27}

\* distance codes 0..16 and the first distance that is too far, after 260 bytes
DistanceStreams ==
    {<<Block(1, 1, 0, <<Lit(65), Lit(66), Match(258, 1), Match(3, d), Eob>>)>> :
        d \in {RefDistBase(c) : c \in 0..16} \cup {6, 24, 256, 260, 261}}

\* symbols the format leaves unused: 286, 287, and distance symbols 30, 31
UnusedSymbolStreams ==
    {<<Block(1, 1, 0, <<Lit(65), Sym(v), Lit(65), Lit(200), Eob>>)>> : v \in {286, 287}}
    \cup {<<Block(1, 1, 0, <<Lit(65), DSym(n, d), Eob>>)>> : n \in {3, 258}, d \in {30, 31}}
    \cup {<<Block(1, 1, 0, <<DSym(3, 30), Eob>>)>>,
          <<Block(1, 1, 0, <<Lit(65), Sym(286), Eob, Eob>>)>>}

\* 32768 bytes of output, then a match at the largest distance
Repeat(t, n) == [k \in 1..n |-> t]
FarStream(d) ==
    <<Block(1, 1, 0, <<Lit(65), Lit(66)>> \o Repeat(Match(258, 1), FarMatches)
                     \o <<Match(3, d), Eob>>)>>
FarStreams == {FarStream(32768)}

\* dynamic blocks whose header is refused while the code lengths are read
\* (no tokens follow), and one whose last run ends with the last entry
HeaderStreams ==
    {<<Block(1, 2, h, <<>>)>> : h \in (2..5) \cup {8}}
    \cup {<<Block(1, 2, 6, <<Lit(65), Eob>>)>>, <<Block(1, 2, 9, <<Lit(65), Eob>>)>>,
          <<Block(1, 2, 7, <<Lit(65), Match(3, 1), Lit(255), Eob>>)>>}

\* streams cut short: every proper prefix of the bytes of these
CutStreams ==
    {TestStream2,
     <<Block(0, 2, 1, <<Lit(65), Match(3, 1), Eob>>), Block(1, 1, 0, <<Lit(200), Eob>>)>>}

Scenario(blocks, keep, after, w) ==
    [blocks |-> blocks, keep |-> keep, after |-> after, w |-> w]

\* The memory after the buffer is varied for the streams that can read it
\* (no final block, a block the code does not parse, a cut stream); what
\* wild reads find is varied for the streams with unused symbols.
Scenarios ==
    {Scenario(b, -1, <<>>, WildDefault) :
        b \in OneBlock \cup {TestStream1, TestStream2} \cup LengthStreams
              \cup DistanceStreams \cup FarStreams}
    \cup {Scenario(b, -1, a, WildDefault) :
            b \in TwoBlocks \cup MixedBlocks \cup StoredStreams \cup HeaderStreams,
            a \in BeyondChoices}
    \cup {Scenario(b, -1, <<>>, w) :
            b \in UnusedSymbolStreams, w \in WildChoices \cup {WildLong}}
    \cup UNION {{Scenario(b, k, a, WildDefault) :
                    k \in 0..(Len(Encode(b)) - 1), a \in BeyondChoices} : b \in CutStreams}

\* the bytes the caller hands over
InputBytes(sc) ==
    LET all == Encode(sc.blocks)
    IN  IF sc.keep < 0 \/ sc.keep >= Len(all) THEN all ELSE SubSeq(all, 1, sc.keep)

InitFrom(sc) ==
    /\ bs = bit_stream(InputBytes(sc), sc.after)
    /\ wild = sc.w
    /\ output = output_buffer
    /\ last_block = FALSE
    /\ type = 0
    /\ cl_tree = huffman_tree
    /\ cl2 = <<>>
    /\ hlit = 0
    /\ cl_i = 0
    /\ lit_len_tree = huffman_tree
    /\ dist_tree = huffman_tree
    /\ pc = "block_header"
    /\ result = <<>>
    /\ bad = {}
    /\ last = NoLast
    /\ nblocks = 0
    /\ stream = [blocks |-> sc.blocks, cut |-> Len(InputBytes(sc)) < Len(Encode(sc.blocks))]

Init == \E sc \in Scenarios : InitFrom(sc)

Spec == Init /\ [][Next]_vars

\* deflate is one sequential call: the thread that entered it keeps taking the
\* next step of its loops until it returns, throws or faults
LiveSpec == Init /\ [][Next]_vars /\ WF_vars(Next)

(* ------------------------------------------------------------------ *)
(* The code builder and the decoder on their own: a length vector is  *)
(* given to make_huffman_table, the codes to make_huffman_tree with a  *)
(* table depth K, and one symbol is decoded from a reader over the     *)
(* input.  The variables of the call above are used for the same       *)
(* things: cl2 is the length vector, result the huffman_table          *)
(* returned, lit_len_tree the decoder, bs the reader.                  *)
(* stream describes the arguments:                                     *)
(*   kind : "lens" (make_huffman_table(cl2)), "default"                *)
(*          (make_default_huffman_table) or "default_len"              *)
(*   lens : the length vector the codes come from                      *)
(*   K    : the table depth                                            *)
(*   sym  : the symbol whose code word is the input, or -1 when the    *)
(*          input is bytes of any kind                                 *)
(* ------------------------------------------------------------------ *)
MaxLensLen == 3     \* symbols of a generated length vector
MaxLensBits == 2    \* the longest code length of a generated length vector

\* RFC 1951 3.2.2, the example
RfcExample == <<3, 3, 3, 3, 3, 2, 4, 4>>
\* RFC 1951 3.2.6, the lengths of the fixed codes
RefFixedLens == [i \in 1..288 |->
    IF i <= 144 THEN 8 ELSE IF i <= 256 THEN 9 ELSE IF i <= 280 THEN 7 ELSE 8]
RefFixedDistLens == [i \in 1..32 |-> 5]

GeneratedLens == UNION {[1..m -> 0..MaxLensBits] : m \in 1..MaxLensLen}
SpecialLens == {RfcExample, <<0, 15, 1, 15>>, <<15>>, <<4, 4, 9, 10, 10>>,
                LongCodes(285)}

\* the Kraft sum of a length vector, in units of 2^-15
RECURSIVE Kraft(_, _, _)
Kraft(L, lo, hi) ==
    IF hi <= lo THEN 0
    ELSE IF hi - lo = 1 THEN (IF L[hi] > 0 THEN Pow2(15 - L[hi]) ELSE 0)
    ELSE Kraft(L, lo, Mid(lo, hi)) + Kraft(L, Mid(lo, hi), hi)
KraftOk(L) == Kraft(L, 0, Len(L)) <= Pow2(15)
Incomplete(L) == Kraft(L, 0, Len(L)) < Pow2(15)

\* the symbols whose code words are used as inputs
SymbolPick == (0..7) \cup {143, 144, 255, 256, 279, 280, 285, 287}
CodedSymbols(L) == {i \in SymbolPick : i < Len(L) /\ L[i + 1] > 0}

RawInputs == {<<1>>, <<0, 0>>, <<255, 255>>}
TableBitsChoices == 1..max_table_bits
\* the depths used with the generated vectors: below, at and above their lengths
ShortTableBits == {1, 2, 3, max_table_bits}

TreeScenario(kind, L, K, sym, input, w) ==
    [kind |-> kind, lens |-> L, K |-> K, sym |-> sym, input |-> input, w |-> w]

TreeScenariosOf(kind, L, Ks) ==
    {TreeScenario(kind, L, K, i, PackBytes(RefCanon(L, i)), WildDefault) :
        K \in Ks, i \in CodedSymbols(L)}
    \cup {TreeScenario(kind, L, K, -1, in, w) : K \in Ks, in \in RawInputs, w \in WildChoices}

\* the two trees of test_huffman_tree: the codes of 'A' .. 'D' as a table
\* over the symbols 0 .. 'D', the other symbols without a code
a_code_1 == huffman_code(2, 0)
b_code_1 == huffman_code(1, 1)
c_code_1 == huffman_code(3, 3)
d_code_1 == huffman_code(3, 2)
a_code_2 == huffman_code(2, 2)
b_code_2 == huffman_code(1, 0)
c_code_2 == huffman_code(3, 6)
d_code_2 == huffman_code(3, 7)
test_codes(a, b, c, d) ==
    [n \in 1..69 |-> IF n = 66 THEN a ELSE IF n = 67 THEN b ELSE IF n = 68 THEN c
                     ELSE IF n = 69 THEN d ELSE huffman_code(0, 0)]
test_codes_1 == test_codes(a_code_1, b_code_1, c_code_1, d_code_1)
test_codes_2 == test_codes(a_code_2, b_code_2, c_code_2, d_code_2)
TestLens == Sparse(69, {<<65, 2>>, <<66, 1>>, <<67, 3>>, <<68, 3>>})

TreeScenarios ==
    UNION {TreeScenariosOf("lens", L, ShortTableBits) : L \in GeneratedLens}
    \cup {TreeScenario("test1", TestLens, 4, -1, in, WildDefault) : in \in RawInputs}
    \cup {TreeScenario("test2", TestLens, 2, -1, in, WildDefault) : in \in RawInputs}
    \cup UNION {TreeScenariosOf("lens", L, TableBitsChoices) :
                  L \in SpecialLens \ {LongCodes(285)}}
    \cup TreeScenariosOf("lens", LongCodes(285), {9})
    \cup TreeScenariosOf("lens", RefFixedLens, {9})
    \cup TreeScenariosOf("default", RefFixedLens, {9})
    \cup TreeScenariosOf("default_len", RefFixedDistLens, {5})

TreeInitFrom(sc) ==
    /\ bs = bit_stream(sc.input, <<>>)
    /\ wild = sc.w
    /\ output = output_buffer
    /\ last_block = FALSE
    /\ type = 0
    /\ cl_tree = huffman_tree
    /\ cl2 = IF sc.kind = "lens" THEN sc.lens ELSE <<>>
    /\ hlit = 0
    /\ cl_i = 0
    /\ lit_len_tree = huffman_tree
    /\ dist_tree = huffman_tree
    /\ pc = "make_huffman_table"
    /\ result = <<>>
    /\ bad = {}
    /\ last = NoLast
    /\ nblocks = 0
    /\ stream = [kind |-> sc.kind, lens |-> sc.lens, K |-> sc.K, sym |-> sc.sym]

TreeInit == \E sc \in TreeScenarios : TreeInitFrom(sc)

\* auto codes = make_huffman_table(symbol_bit_lengths), or one of the two
\* predefined tables
MakeHuffmanTable ==
    /\ pc = "make_huffman_table"
    /\ result' = IF stream.kind = "default" THEN make_default_huffman_table
                 ELSE IF stream.kind = "default_len" THEN make_default_huffman_len_table
                 ELSE IF stream.kind = "test1" THEN test_codes_1
                 ELSE IF stream.kind = "test2" THEN test_codes_2
                 ELSE make_huffman_table(cl2)
    /\ pc' = "make_huffman_tree"
    /\ last' = [NoLast EXCEPT !.op = "make_huffman_table"]
    /\ UNCHANGED <<bs, wild, output, last_block, type, cl_tree, cl2, hlit, cl_i,
                   lit_len_tree, dist_tree, bad, nblocks, stream>>

\* make_huffman_tree(codes, K)
MakeHuffmanTree ==
    /\ pc = "make_huffman_tree"
    /\ \E t \in {make_huffman_tree(result, stream.K, wild.node)} :
           /\ lit_len_tree' = t
           /\ bad' = bad \cup t.bad
           /\ pc' = IF t.ub THEN "ub" ELSE "decode"
    /\ last' = [NoLast EXCEPT !.op = "make_huffman_tree"]
    /\ UNCHANGED <<bs, wild, output, last_block, type, cl_tree, cl2, hlit, cl_i,
                   dist_tree, result, nblocks, stream>>

\* decode(t, bs)
Decode ==
    /\ pc = "decode"
    /\ \E d \in {decode(lit_len_tree, bs, wild.node)} :
           /\ bs' = d.bs
           /\ bad' = bad \cup d.bs.bad \cup d.bad
           /\ last' = [NoLast EXCEPT !.op = "decode", !.value = d.value,
                                     !.bit_before = BitPos(bs)]
           /\ pc' = IF d.bs.fault THEN "crash" ELSE "decoded"
    /\ UNCHANGED <<wild, output, last_block, type, cl_tree, cl2, hlit, cl_i,
                   lit_len_tree, dist_tree, result, nblocks, stream>>

TreeNext == MakeHuffmanTable \/ MakeHuffmanTree \/ Decode

TreeSpec == TreeInit /\ [][TreeNext]_vars

(* ------------------------------------------------------------------ *)
(* The bit reader on its own: a reader over a buffer, and a caller    *)
(* that asks for fields with get_bits, or makes bits available with   *)
(* ensure_bits after asking potentially_available_bits, as decode     *)
(* does.  stream.data is the buffer; bs, last and bad are used as     *)
(* above.                                                             *)
(* ------------------------------------------------------------------ *)
MaxBytes == 3       \* bytes of the buffer
MaxGetBits == 23    \* the widest field asked for

ByteChoices == {90, 165}           \* 0x5a and 0xa5, the bytes of test_bit_stream
BitBeyondChoices == {<<>>, <<255, 255, 255>>}

BitInitFrom(data, after) ==
    /\ bs = bit_stream(data, after)
    /\ wild = WildDefault
    /\ output = output_buffer
    /\ last_block = FALSE
    /\ type = 0
    /\ cl_tree = huffman_tree
    /\ cl2 = <<>>
    /\ hlit = 0
    /\ cl_i = 0
    /\ lit_len_tree = huffman_tree
    /\ dist_tree = huffman_tree
    /\ pc = "bits"
    /\ result = <<>>
    /\ bad = {}
    /\ last = NoLast
    /\ nblocks = 0
    /\ stream = [data |-> data]

BitInit ==
    \E data \in SeqsUpTo(ByteChoices, MaxBytes) : \E after \in BitBeyondChoices :
        BitInitFrom(data, after)

\* bs.get_bits(n)
GetBits ==
    /\ pc = "bits"
    /\ \E n \in 1..MaxGetBits : \E g \in {get_bits(bs, n)} :
           /\ bs' = g.bs
           /\ bad' = bad \cup g.bs.bad
           /\ last' = [NoLast EXCEPT !.op = "get_bits", !.value = g.res, !.length = n,
                                     !.bit_before = BitPos(bs)]
           /\ pc' = IF g.bs.fault THEN "crash" ELSE "bits"
    /\ UNCHANGED <<wild, output, last_block, type, cl_tree, cl2, hlit, cl_i, lit_len_tree,
                   dist_tree, result, nblocks, stream>>

\* if (bs.potentially_available_bits() >= n) bs.ensure_bits(n)
EnsureBits ==
    /\ pc = "bits"
    /\ \E n \in 1..16 :
           /\ potentially_available_bits(bs) >= n
           /\ \E e \in {ensure_bits(bs, n)} :
                  /\ bs' = e
                  /\ bad' = bad \cup e.bad
                  /\ last' = [NoLast EXCEPT !.op = "ensure_bits", !.length = n,
                                            !.bit_before = BitPos(bs)]
                  /\ pc' = IF e.fault THEN "crash" ELSE "bits"
    /\ UNCHANGED <<wild, output, last_block, type, cl_tree, cl2, hlit, cl_i, lit_len_tree,
                   dist_tree, result, nblocks, stream>>

\* bs.peek_bits(n), with bits in the accumulator
PeekBits ==
    /\ pc = "bits"
    /\ \E n \in 1..available_bits(bs) :
           last' = [NoLast EXCEPT !.op = "peek_bits", !.value = peek_bits(bs, n), !.length = n,
                                  !.bit_before = BitPos(bs)]
    /\ UNCHANGED <<bs, wild, output, last_block, type, cl_tree, cl2, hlit, cl_i, lit_len_tree,
                   dist_tree, pc, result, bad, nblocks, stream>>

\* bs.consume_bits(n), with bits in the accumulator
ConsumeBits ==
    /\ pc = "bits"
    /\ \E n \in 1..available_bits(bs) : \E c \in {consume_bits(bs, n)} :
           /\ bs' = c
           /\ bad' = bad \cup c.bad
           /\ last' = [NoLast EXCEPT !.op = "consume_bits", !.length = n,
                                     !.bit_before = BitPos(bs)]
    /\ UNCHANGED <<wild, output, last_block, type, cl_tree, cl2, hlit, cl_i, lit_len_tree,
                   dist_tree, pc, result, nblocks, stream>>

BitNext == GetBits \/ EnsureBits \/ PeekBits \/ ConsumeBits

BitSpec == BitInit /\ [][BitNext]_vars

(* ------------------------------------------------------------------ *)
(* Properties                                                         *)
(* ------------------------------------------------------------------ *)
Ended == pc \in {"returned", "invalid", "crash", "ub"}

\* the number of bytes the tokens of blocks n .. emit
RECURSIVE EmittedBlocks(_, _)
EmittedBlocks(blocks, n) ==
    IF n > Len(blocks) THEN 0
    ELSE Emitted(blocks[n].toks, 0, Len(blocks[n].toks)) + EmittedBlocks(blocks, n + 1)

\* blocks 1 .. n-1 are Huffman blocks that are not final and whose tokens are
\* well-formed, so that block n starts where the encoder wrote it
Parseable(blocks, n) ==
    /\ n <= Len(blocks)
    /\ \A m \in 1..(n - 1) :
          /\ blocks[m].type \in {1, 2}
          /\ blocks[m].final = 0
          /\ ToksWellFormed(Len(RefOutput(SubSeq(blocks, 1, m - 1))), blocks[m].toks)

\* C1: for a well-formed stream of fixed and dynamic Huffman blocks, handed
\* over in full, a call that ends ends by returning, and the vector it
\* returns is the output of the reference decoder (literals in stream order,
\* matches copied from `distance` bytes back, across blocks), its size the
\* number of bytes emitted.  The two inputs of test_deflate are among the
\* streams, byte for byte, and give the output the test expects.
C1_RoundTrip ==
    (Ended /\ ~stream.cut /\ WellFormed(stream.blocks)) =>
        /\ pc = "returned"
        /\ result = RefOutput(stream.blocks)
        /\ Len(result) = EmittedBlocks(stream.blocks, 1)
        /\ stream.blocks = TestStream1 => bs.mem = deflate_input1 /\ result = expected_output
        /\ stream.blocks = TestStream2 => bs.mem = deflate_input2 /\ result = expected_output

\* a dynamic block whose match reaches into the output of the block before it
C1_Witness ==
    /\ pc = "returned"
    /\ ~stream.cut /\ WellFormed(stream.blocks)
    /\ Len(stream.blocks) = 2
    /\ stream.blocks[1].type = 2 /\ stream.blocks[2].type = 2
    /\ stream.blocks[2].toks[1] = Match(4, 2)
    /\ result = <<200, 65, 200, 65, 200, 65>>

\* C2: blocks are processed in stream order and the loop stops after the
\* first block with BFINAL = 1.  Where a block has ended (pc = "block_header")
\* the next step reads a header of 3 bits and nothing else if the block was
\* not final, and returns the accumulated buffer, reading nothing, if it was;
\* nothing happens after the return; and the n-th header read is the header
\* of the n-th block, with the output of the blocks before it in the buffer.
C2_BlockOrder ==
    [][/\ (pc = "block_header" /\ ~last_block) =>
             /\ last'.op = "header" /\ nblocks' = nblocks + 1 /\ output' = output
             /\ pc' # "crash" => BitPos(bs') = BitPos(bs) + 3
       /\ (pc = "block_header" /\ last_block) =>
             /\ pc' = "returned" /\ result' = contents(output)
             /\ bs' = bs /\ nblocks' = nblocks
       /\ pc # "returned"
       /\ (last'.op = "true") => pc' = "block_header"
       /\ (last'.op = "header" /\ pc' # "crash" /\ ~stream.cut
             /\ Parseable(stream.blocks, nblocks')) =>
             /\ type' = stream.blocks[nblocks'].type
             /\ last_block' = (stream.blocks[nblocks'].final = 1)
             /\ contents(output') = RefOutput(SubSeq(stream.blocks, 1, nblocks))
      ]_vars

\* the call has returned after the second of three blocks, the first final one
C2_Witness ==
    /\ pc = "returned"
    /\ Len(stream.blocks) = 3 /\ nblocks = 2
    /\ stream.blocks[1].final = 0 /\ stream.blocks[2].final = 1
    /\ result = <<65, 200>>

\* C3: a block of type 0 is copied: once the loop is through a stored block
\* that is the first of the stream, the output holds the LEN bytes of the
\* block and the reader stands behind them.
C3_StoredCopied ==
    (last.op = "header" /\ type = 0 /\ nblocks = 1 /\ ~stream.cut
        /\ stream.blocks[1].type = 0 /\ pc # "crash") =>
        /\ contents(output) = [k \in 1..Len(stream.blocks[1].toks) |-> stream.blocks[1].toks[k].a]
        /\ BitPos(bs) = 8 * (5 + Len(stream.blocks[1].toks))

\* C4: copy_match(d, n) with 1 <= d <= used and 3 <= n <= 258 leaves the
\* bytes below the old used alone, makes used grow by n, and makes byte
\* old_used + k equal to byte old_used + k - d of the result for k in
\* [0, n); for d >= n that is the block of n bytes at old_used - d.
\* put('A') and copy_match(1, 5) give "AAAAAA".
C4_CopyMatch ==
    [][(last'.op = "copy_match" /\ 1 <= last'.distance /\ last'.distance <= used(output)
            /\ 3 <= last'.length /\ last'.length <= max_match_length) =>
          LET old == contents(output)
              new == contents(output')
              d == last'.distance
              n == last'.length
          IN  /\ used(output') = used(output) + n
              /\ Len(new) = Len(old) + n
              /\ SubSeq(new, 1, Len(old)) = old
              /\ \A k \in 0..(n - 1) : new[Len(old) + k + 1] = new[Len(old) + k - d + 1]
              /\ d >= n => SubSeq(new, Len(old) + 1, Len(new))
                              = SubSeq(old, Len(old) - d + 1, Len(old) - d + n)
              /\ contents(copy_match(put(output_buffer, 65), 1, 5))
                    = <<65, 65, 65, 65, 65, 65>>
      ]_vars

\* a match of length 4 at distance 2 repeats the last two bytes
C4_Witness ==
    /\ last.op = "copy_match" /\ last.distance = 2 /\ last.length = 4
    /\ last.used_before = 2
    /\ contents(output) = <<65, 200, 65, 200, 65, 200>>

\* C5: a back-reference decoded from a length symbol 257..285 and a
\* distance symbol 0..29 with 1 <= distance <= used, distance 32768 included,
\* is copied, and the conditions copy_match asserts on distance and length
\* are true at the call.
C5_MatchAsserts ==
    (last.op \in {"copy_match", "false"}
        /\ len_min <= last.value /\ last.value <= len_max
        /\ 0 <= last.dist /\ last.dist <= 29
        /\ 1 <= last.distance /\ last.distance <= last.used_before) =>
        /\ last.op = "copy_match"
        /\ copy_match_bad(last.distance, last.length) = {}

\* C6: a back-reference whose distance is greater than the number of bytes
\* emitted so far in the call ends the call with the invalid-stream error;
\* copy_match has not run for it (the output is as it was).
C6_TooFar ==
    (last.op \in {"copy_match", "false"} /\ last.distance > last.used_before) =>
        /\ last.op = "false"
        /\ pc = "invalid"
        /\ used(output) = last.used_before

\* a distance of 3 in a second block, one byte after the start of the output
C6_Witness ==
    /\ pc = "invalid" /\ last.op = "false"
    /\ nblocks = 2 /\ last.used_before = 1 /\ last.distance = 3
    /\ contents(output) = <<65>>

C8_EofIsError ==
    /\ bs.pos <= bs.len
    /\ ~bs.fault
    /\ (stream.cut /\ Ended) => pc = "invalid"

\* C9: a literal/length symbol greater than 285 ends the call with the
\* invalid-stream error, and the length and extra-bit tables are indexed
\* within 0..28 only.
C9_UnusedLitLen ==
    /\ (last.op \in {"copy_match", "false", "put", "true"} /\ last.value > len_max) =>
          pc = "invalid"
    /\ last.op \in {"copy_match", "false"} => last.value - len_min \in 0..28

\* C10: a distance symbol 30 or 31 ends the call with the invalid-stream
\* error, and every distance passed to copy_match is within 1..32768.
C10_UnusedDist ==
    /\ (last.op \in {"copy_match", "false"} /\ last.dist >= 30) => pc = "invalid"
    /\ last.op = "copy_match" => 1 <= last.distance /\ last.distance <= 32768

\* the stream has a final block, and every block up to the first final one is
\* a block of the format: stored bytes, or Huffman-coded tokens that are
\* well-formed after the output of the blocks before
HasFinal(blocks) == \E n \in 1..Len(blocks) : blocks[n].final = 1
FirstFinal(blocks) == CHOOSE n \in 1..Len(blocks) :
                          blocks[n].final = 1 /\ \A m \in 1..(n - 1) : blocks[m].final = 0
Complete(blocks) ==
    /\ HasFinal(blocks)
    /\ \A m \in 1..FirstFinal(blocks) :
          /\ blocks[m].type \in {0, 1, 2}
          /\ Len(blocks[m].toks) > 0
          /\ IF blocks[m].type = 0
             THEN \A k \in 1..Len(blocks[m].toks) : blocks[m].toks[k].k = "lit"
             ELSE ToksWellFormed(Len(RefOutput(SubSeq(blocks, 1, m - 1))), blocks[m].toks)

\* C12: a call on a stream handed over in full ends in one of two ways: it
\* returns, and then, when the blocks up to the first final one are blocks of
\* the format, the vector returned holds the data of every one of them; or
\* it fails with the invalid-stream error, and then nothing is handed to the
\* caller.
C12_AllOrNothing ==
    /\ (Ended /\ ~stream.cut) => pc \in {"returned", "invalid"}
    /\ pc = "invalid" => result = <<>>
    /\ (pc = "returned" /\ ~stream.cut /\ Complete(stream.blocks)) =>
          result = RefOutput(stream.blocks)

\* the length a code-length symbol sy stores from index i on: itself, the
\* entry before (16), or 0 (17, 18)
RefStored(v, sy, i) == IF sy <= 15 THEN sy ELSE IF sy = 16 THEN v[i] ELSE 0

\* C20: an iteration of the loop that reads the code lengths, having decoded
\* a code-length symbol 0..18 at index i with its repeat count n, ends the
\* call with the invalid-stream error exactly when the symbol is 16 at
\* index 0 or the symbol is a run (16, 17, 18) with i + n beyond the
\* nlit + ndist entries; then no entry has been written.  Otherwise the
\* entries i .. i+n-1, all of the vector, get the length (for 16 the one of
\* entry i-1, which exists), the others stay, and the index is i + n.
C20_CodeLengthRuns ==
    [][(pc = "code_lengths" /\ last'.op = "code_length" /\ pc' # "crash"
        /\ last'.value \in 0..18) =>
          LET sy == last'.value
              n == last'.length
              i == cl_i
              size == Len(cl2)
          IN  /\ size > hlit /\ hlit >= 257
              /\ pc' \in {"invalid", "code_lengths"}
              /\ pc' = "invalid" <=>
                    \/ sy = 16 /\ i = 0
                    \/ sy \in 16..18 /\ i + n > size
              /\ pc' = "invalid" => cl2' = cl2 /\ cl_i' = cl_i
              /\ pc' = "code_lengths" =>
                    /\ sy = 16 => i >= 1
                    /\ n >= 1 /\ i + n <= size
                    /\ cl_i' = i + n
                    /\ Len(cl2') = size
                    /\ \A k \in 1..size :
                          cl2'[k] = IF k - 1 >= i /\ k - 1 < i + n
                                    THEN RefStored(cl2, sy, i) ELSE cl2[k]]_vars

\* a run of four copies from index 255 of 258 has been refused, after runs
\* that were stored
C20_Witness ==
    /\ pc = "invalid" /\ last.op = "code_length"
    /\ last.value = 16 /\ last.used_before = 255 /\ last.length = 4
    /\ Len(cl2) = 258 /\ cl_i = 255 /\ cl2[1] = 1 /\ cl2[7] = 1 /\ cl2[8] = 0

\* RFC 1951 3.2.7: the lengths that the code-length symbols ops[1..n] of a
\* header stand for, each <<symbol, extra bits>>
RECURSIVE RefExpand(_, _)
RefExpand(ops, n) ==
    IF n = 0 THEN <<>>
    ELSE LET before == RefExpand(ops, n - 1)
             sy == ops[n][1]
             x == ops[n][2]
         IN  IF sy <= 15 THEN Append(before, sy)
             ELSE IF sy = 16 THEN before \o [k \in 1..(3 + x) |-> before[Len(before)]]
             ELSE IF sy = 17 THEN before \o [k \in 1..(3 + x) |-> 0]
             ELSE before \o [k \in 1..(11 + x) |-> 0]

\* what a decoder returns for the code word of symbol sy under the lengths
\* L, alone in a buffer that is followed by two zero bytes
DecodesTo(t, L, sy) ==
    decode(t, bit_stream(PackBytes(RefCanon(L, sy)) \o <<0, 0>>, <<>>), invalid_edge_value)

\* C21: when the header of a dynamic block has been accepted, the vector of
\* lengths has (HLIT + 257) + (HDIST + 1) entries and is what the
\* code-length symbols of the header stand for: a symbol 0..15 one entry, 16
\* three to six copies of the entry before, 17 three to ten zeros, 18 eleven
\* to 138 zeros, over the one vector (a run may begin in the literal/length
\* part and end in the distance part).  The literal/length decoder is made
\* of the first HLIT + 257 entries and the distance decoder of the rest:
\* each, once built within its node array, decodes the code word of every
\* symbol of its part to that symbol.
C21_HeaderLengths ==
    (last.op = "build_trees" /\ ~stream.cut /\ Parseable(stream.blocks, nblocks)) =>
        LET h == DynHeaders[stream.blocks[nblocks].hdr]
        IN  /\ stream.blocks[nblocks].type = 2
            /\ hlit = h.hlit
            /\ Len(cl2) = h.hlit + h.hdist
            /\ cl2 = RefExpand(h.ops, Len(h.ops))
            /\ cl2 = h.lit \o h.dist
            /\ pc = "symbol" =>
                  /\ \A sy \in 0..(h.hlit - 1) :
                        h.lit[sy + 1] > 0 => DecodesTo(lit_len_tree, h.lit, sy).value = sy
                  /\ \A d \in 0..(h.hdist - 1) :
                        h.dist[d + 1] > 0 => DecodesTo(dist_tree, h.dist, d).value = d

\* a header has been accepted whose last run of four copies covers the
\* entries 256, 257 of the literal/length part and the two distance entries
C21_Witness ==
    /\ last.op = "build_trees" /\ pc = "symbol" /\ ~stream.cut
    /\ hlit = 258 /\ Len(cl2) = 260
    /\ cl2[255] = 0 /\ cl2[256] = 2
    /\ cl2[257] = 2 /\ cl2[258] = 2 /\ cl2[259] = 2 /\ cl2[260] = 2

\* the buffer as the next iteration of the symbol loop has it after its
\* growth step
Grown(o) == IF avail(o) < max_match_length THEN enlarge(o) ELSE o

\* C24: the bytes written never pass the capacity of the buffer, which is 0
\* or 32768 doubled some number of times; and when an iteration of the
\* symbol loop begins, after its growth step at least 258 bytes are free.
C24_Headroom ==
    /\ used(output) <= capacity(output)
    /\ capacity(output) \in {0} \cup {initial_capacity * Pow2(j) : j \in 0..15}
    /\ pc = "symbol" => avail(Grown(output)) >= max_match_length

\* C25: when the first block of a stream is a dynamic block whose distance
\* lengths are all 0, its decoders are built without an assertion of
\* huffman_tree being violated and without a read of a node that has not
\* been initialised, and a stream of literals and end-of-block handed over
\* in full is decoded to its bytes.
C25_NoDistanceCodes ==
    (nblocks = 1 /\ type = 2 /\ lit_len_tree.table_bits > 0 /\ ~stream.cut
     /\ Len(cl2) > hlit /\ \A k \in (hlit + 1)..Len(cl2) : cl2[k] = 0) =>
        /\ dist_tree.bad = {}
        /\ "make_tables: num_nodes > 0" \notin bad
        /\ "branch: index < num_nodes" \notin bad
        /\ (Ended /\ WellFormed(stream.blocks)) =>
              pc = "returned" /\ result = RefOutput(stream.blocks)

\* the edges of the nodes of a tree are symbols, nodes of the tree or unset
EdgesInTree(t) ==
    \A n \in 1..Len(t.nodes) : \A e \in {t.nodes[n].left, t.nodes[n].right} :
        (e >= max_symbols /\ e # invalid_edge_value) =>
            e < invalid_edge_value /\ e - max_symbols < t.num_nodes

\* C23: the decoders the block engine builds (the two fixed ones, the one of
\* the code-length code and the two of the lengths of an accepted dynamic
\* header) have at most max_nodes nodes: alloc_node is never called with
\* the node array full, and every edge to a node is below
\* invalid_edge_value.
C23_NodeBound ==
    /\ "alloc_node: num_nodes < max_nodes" \notin bad
    /\ pc # "ub"
    /\ \A t \in {cl_tree, lit_len_tree, dist_tree} :
          ~t.ub /\ t.num_nodes <= max_nodes /\ Len(t.nodes) = t.num_nodes /\ EdgesInTree(t)

(* ------------------------------------------------------------------ *)
(* Properties of the bit reader (BitSpec)                             *)
(* ------------------------------------------------------------------ *)
\* the integer whose bit j is stream bit at + j of the buffer, j in [0, n)
RECURSIVE RefField(_, _, _)
RefField(data, at, n) ==
    IF n = 0 THEN 0
    ELSE ((data[(at \div 8) + 1] \div Pow2(at % 8)) % 2) + 2 * RefField(data, at + 1, n - 1)

\* the assertion of ensure_bits on its argument (0 < num_bits <= 16)
MaxEnsureBits == 16

C14_PotentiallyAvailable ==
    /\ potentially_available_bits(bs) <= 8 * bs.len - BitPos(bs)
    /\ bs.len - bs.pos < 2 => potentially_available_bits(bs) = 8 * bs.len - BitPos(bs)
    /\ bs.len - bs.pos >= 2 => potentially_available_bits(bs) = 16
    /\ last.op = "ensure_bits" =>
          /\ pc = "bits" /\ ~bs.fault
          /\ bs.pos <= bs.len
          /\ available_bits(bs) >= last.length
          /\ "ensure_bits: pos_ < len_" \notin bad

\* test_bit_stream: after three single bits of [0x5a, 0xa5] 13 bits are
\* potentially available, and ensure_bits(13) reads the last byte
C14_Witness ==
    /\ last.op = "ensure_bits" /\ last.length = 13 /\ last.bit_before = 3
    /\ stream.data = <<90, 165>>
    /\ bs.pos = bs.len /\ available_bits(bs) = 13
    /\ potentially_available_bits(bs) = 13

(* ------------------------------------------------------------------ *)
(* Properties of the code builder and the decoder (TreeSpec)          *)
(* ------------------------------------------------------------------ *)
\* bit k of a buffer: bit b of byte p is stream bit 8p + b
StreamBit(data, k) == (data[(k \div 8) + 1] \div Pow2(k % 8)) % 2
InputBits(data) == [k \in 1..(8 * Len(data)) |-> StreamBit(data, k - 1)]

IsPrefix(a, b) == Len(a) <= Len(b) /\ SubSeq(b, 1, Len(a)) = a

\* the canonical code words of a length vector, by symbol
RefCodeWords(L) == [i \in {j \in 0..(Len(L) - 1) : L[j + 1] > 0} |-> RefCanon(L, i)]

\* the symbols whose code word the bits start with
RefSymbols(L, bits) ==
    LET words == RefCodeWords(L) IN {i \in DOMAIN words : IsPrefix(words[i], bits)}

\* the bits leave the code: some prefix of them neither starts a code word
\* nor starts with one
FallsOff(L, bits) ==
    LET words == RefCodeWords(L)
    IN  \E n \in 1..Len(bits) :
            \A i \in DOMAIN words :
                ~IsPrefix(words[i], SubSeq(bits, 1, n)) /\ ~IsPrefix(SubSeq(bits, 1, n), words[i])

\* C11: for a length vector whose code is incomplete (Kraft sum below 1) the
\* decoder is built (no write outside the node array), input that starts with
\* the code word of a symbol decodes to that symbol, and input that leaves
\* the code (an unset edge of the table or of the walk) ends in the
\* invalid-stream error without a node outside the tree being indexed.
C11_IncompleteCodes ==
    (stream.kind = "lens" /\ Incomplete(stream.lens)) =>
        /\ pc # "ub"
        /\ last.op = "decode" =>
              /\ RefSymbols(stream.lens, InputBits(bs.mem)) # {} =>
                    pc = "decoded" /\ last.value \in RefSymbols(stream.lens, InputBits(bs.mem))
              /\ FallsOff(stream.lens, InputBits(bs.mem)) =>
                    pc = "invalid" /\ "branch: index < num_nodes" \notin bad

\* RFC 1951 3.2.2, steps 1 and 2: the number of codes of a length, and the
\* smallest code of each length
RefCount(L, bits) == IF bits = 0 THEN 0 ELSE Cardinality({n \in 1..Len(L) : L[n] = bits})
RECURSIVE RefNextCode(_, _)
RefNextCode(L, bits) ==
    IF bits = 0 THEN 0 ELSE 2 * (RefNextCode(L, bits - 1) + RefCount(L, bits - 1))
\* step 3: the code of symbol n, the codes of one length being consecutive in
\* symbol order
RefCodeValue(L, n) ==
    RefNextCode(L, L[n + 1]) + Cardinality({m \in 1..n : L[m] = L[n + 1]})

RefFixedCode(i) ==
    IF i < 144 THEN huffman_code(8, 48 + i)
    ELSE IF i < 256 THEN huffman_code(9, 400 + (i - 144))
    ELSE IF i < 280 THEN huffman_code(7, i - 256)
    ELSE huffman_code(8, 192 + (i - 280))

\* C16: make_default_huffman_table gives each of the 288 symbols its fixed
\* code: 0..143 the 8-bit codes from 00110000, 144..255 the 9-bit codes from
\* 110010000, 256..279 the 7-bit codes from 0000000, 280..287 the 8-bit codes
\* from 11000000; and the tree made of the 288 codes is built without an
\* assertion of huffman_tree being violated.
C16_FixedTable ==
    (stream.kind = "default" /\ pc # "make_huffman_table") =>
        /\ result = [n \in 1..288 |-> RefFixedCode(n - 1)]
        /\ result[144] = huffman_code(8, 191) /\ result[280] = huffman_code(7, 23)
        /\ result[288] = huffman_code(8, 199)
        /\ pc # "make_huffman_tree" =>
              /\ pc # "ub"
              /\ lit_len_tree.bad = {}
              /\ lit_len_tree.num_nodes = 287

\* the fixed table has been made and its 288 codes are in the tree
C16_Witness ==
    /\ pc = "decode" /\ stream.kind = "default"
    /\ Len(result) = 288 /\ result[145] = huffman_code(9, 400)
    /\ lit_len_tree.num_nodes = 287 /\ lit_len_tree.bad = {}

\* C17: every code make_huffman_table assigns to a symbol of non-zero
\* length has value < 2^len, whatever the length vector.
C17_CodesValid ==
    (stream.kind = "lens" /\ pc # "make_huffman_table") =>
        \A n \in 1..Len(cl2) :
            cl2[n] > 0 => result[n].value < Pow2(result[n].len) /\ valid(result[n])

\* C18: of the codes make_huffman_table assigns to two symbols of non-zero
\* length, read as bit strings from the top bit of their length, neither is
\* a prefix of the other, whatever the length vector; and add never finds
\* the last edge of a code set or an edge on its way taken by a symbol.
C18_PrefixFree ==
    (stream.kind = "lens" /\ pc # "make_huffman_table") =>
        /\ \A n, m \in 1..Len(cl2) :
              (n # m /\ cl2[n] > 0 /\ cl2[m] > 0) =>
                  ~IsPrefix(MsbBits(result[n].value, result[n].len),
                            MsbBits(result[m].value, result[m].len))
        /\ "add: edge == invalid_edge_value" \notin bad
        /\ "add: edge >= max_symbols" \notin bad

\* C19: a decoder built from any length vector with a table depth in 1..9
\* decodes the code word of a symbol i (top bit first, padded with zero bits
\* to whole bytes) to i and consumes L[i] bits.
C19_DecodeOwnCode ==
    (last.op = "decode" /\ stream.sym >= 0) =>
        /\ pc = "decoded"
        /\ last.value = stream.sym
        /\ BitPos(bs) = stream.lens[stream.sym + 1]

\* the number whose bits, lowest first, are the given ones
RECURSIVE BitsValue(_)
BitsValue(bits) == IF bits = <<>> THEN 0 ELSE bits[1] + 2 * BitsValue(Tail(bits))

\* the edge reached from the edge e by one bit, or e itself when it is a
\* symbol or unset; a tree without nodes has no edge
TreeEdge(t, e, bit) ==
    IF e >= max_symbols /\ e < invalid_edge_value
    THEN (IF node_ok(t, e - max_symbols)
          THEN branch(t, e - max_symbols, bit = 1, invalid_edge_value)
          ELSE invalid_edge_value)
    ELSE e
\* the edge reached from the root of t after the first n of the bits
RECURSIVE TreeWalk(_, _, _)
TreeWalk(t, bits, n) ==
    IF n = 0 THEN max_symbols
    ELSE TreeEdge(t, TreeWalk(t, bits, n - 1), bits[n])

MaxDecodes == 4     \* symbols decoded in a row from one input

\* a code that uses every code word: the Kraft sum is 1
CompleteCode(L) == Kraft(L, 0, Len(L)) = Pow2(15)

\* decode by the tree alone, bit by bit from the root
WalkDecode(t, b, w) == decode_walk(t, [value |-> max_symbols, bs |-> b, bad |-> {}], w)

\* up to n symbols decoded in a row from the reader b, until the input has
\* no bit left or a read leaves the memory: the symbols, the bits consumed,
\* and whether the last read left the memory
RECURSIVE DecodeSeq(_, _, _, _, _, _)
DecodeSeq(t, b, w, n, walk, syms) ==
    IF n = 0 \/ BitPos(b) >= 8 * b.len
    THEN [syms |-> syms, bits |-> BitPos(b), fault |-> FALSE]
    ELSE LET d == IF walk THEN WalkDecode(t, b, w) ELSE decode(t, b, w)
         IN  IF d.bs.fault THEN [syms |-> syms, bits |-> BitPos(b), fault |-> TRUE]
             ELSE DecodeSeq(t, d.bs, w, n - 1, walk, Append(syms, d.value))

\* C26: for a decoder of a complete code, decode gives the symbol and
\* consumes the bits that the walk of the tree from the root, bit by bit,
\* gives and consumes, whether or not it goes through the prefix table;
\* and the symbols decoded in a row from an input are the same for every
\* table depth 1..9.
C26_TableOrWalk ==
    [][(pc = "decode" /\ CompleteCode(stream.lens) /\ ~lit_len_tree.ub) =>
          /\ \A d \in {WalkDecode(lit_len_tree, bs, wild.node)} :
                /\ bs'.fault = d.bs.fault
                /\ ~d.bs.fault => last'.value = d.value /\ BitPos(bs') = BitPos(d.bs)
          /\ \A ref \in {DecodeSeq(lit_len_tree, bs, wild.node, MaxDecodes, TRUE, <<>>)} :
             \A K2 \in 1..max_table_bits :
                DecodeSeq(make_huffman_tree(result, K2, wild.node), bs, wild.node,
                          MaxDecodes, FALSE, <<>>) = ref
          /\ (potentially_available_bits(bs) >= stream.K) =>
                pc' = "decoded" /\ bs'.bad = {}]_vars

\* a symbol whose code word is longer than the table is deep has been
\* decoded through the table and the tree, from an input of two bytes
C26_Witness ==
    /\ pc = "decoded" /\ last.op = "decode" /\ stream.kind = "lens"
    /\ stream.lens = RfcExample /\ stream.K = 2 /\ Len(bs.mem) = 2
    /\ last.value = 7 /\ BitPos(bs) = 4

\* the bits of the buffer from bit `at` on
BitsFrom(data, at) == [k \in 1..(8 * Len(data) - at) |-> StreamBit(data, at + k - 1)]

\* C27: as long as no call has violated an assertion of the reader (an
\* ensure_bits or get_bits of 1..16 bits that the buffer still holds, a
\* peek_bits or consume_bits of bits that are in the accumulator), the
\* accumulator holds 0..23 bits and nothing above them, no byte at or after
\* the end of the buffer has been read, and the accumulator bits, lowest
\* first, followed by the bits of the bytes not yet read are the bits of the
\* buffer from the first not yet consumed.  ensure_bits and peek_bits
\* consume nothing; peek_bits returns the next bits; consume_bits and
\* get_bits take the bits they are asked for.
C27_ReaderInvariant ==
    (pc = "bits" /\ bad = {} /\ ~bs.fault) =>
        /\ 0 <= bs.avail /\ bs.avail <= 23
        /\ 0 <= bs.bits /\ bs.bits < Pow2(bs.avail)
        /\ 0 <= bs.pos /\ bs.pos <= bs.len
        /\ 0 <= BitPos(bs) /\ BitPos(bs) <= 8 * bs.len
        /\ LsbBits(bs.bits, bs.avail) \o BitsFrom(stream.data, 8 * bs.pos)
               = BitsFrom(stream.data, BitPos(bs))
        /\ last.op \in {"ensure_bits", "peek_bits"} => BitPos(bs) = last.bit_before
        /\ last.op = "peek_bits" =>
               last.value = RefField(stream.data, last.bit_before, last.length)
        /\ last.op \in {"consume_bits", "get_bits"} =>
               BitPos(bs) = last.bit_before + last.length

\* with 15 bits left in the accumulator an ensure_bits(16) has read one more
\* byte: 23 bits are held
C27_Witness ==
    /\ pc = "bits" /\ bad = {} /\ last.op = "ensure_bits" /\ last.length = 16
    /\ bs.avail = 23 /\ bs.pos = 3 /\ BitPos(bs) = 1
    /\ stream.data = <<90, 165, 90>>

(* ------------------------------------------------------------------ *)
(* Termination of deflate (LiveSpec)                                  *)
(* ------------------------------------------------------------------ *)

\* every entry of the prefix table of a built tree has a consumed length >= 1
TableLensPositive(t) ==
    t.table_bits > 0 => \A i \in DOMAIN t.table : te_len(t.table[i]) >= 1

\* a step of one of the loops of deflate: a block header, the header of a
\* dynamic block, one code-length step, one iteration of the symbol loop
LoopStep ==
    \/ pc = "block_header" /\ loop_continues(last_block)
    \/ pc \in {"dynamic_header", "symbol"}
    \/ pc = "code_lengths" /\ cl_i < Len(cl2)

\* every loop step that did not fault consumed at least one bit
StepsConsume == [][(LoopStep /\ pc' # "crash") => BitPos(bs') > BitPos(bs)]_vars

\* the tables of the three decoders of the current block
TablesPositive ==
    /\ pc \in {"code_lengths"} => TableLensPositive(cl_tree)
    /\ pc = "symbol" => TableLensPositive(lit_len_tree) /\ TableLensPositive(dist_tree)

\* C28: deflate halts on every finite input: every prefix-table entry has a
\* consumed length >= 1, every block header, dynamic header, code-length step
\* and symbol-loop iteration consumes at least one input bit, the bits consumed
\* never exceed the bits of the input, and every run eventually ends with a
\* returned buffer or with the invalid-stream error.
C28_Halts ==
    /\ [](TablesPositive /\ BitPos(bs) <= 8 * bs.len)
    /\ StepsConsume
    /\ <>(pc \in {"returned", "invalid"})

====
